---- MODULE Spec2Model ----
(***************************************************************************)
(* Bronze -> silver -> gold pipeline of youngleee/DataAnalyticsHAW.         *)
(*                                                                         *)
(* A table (pandas DataFrame) is a record [cols, rows]: cols is the set of *)
(* column names, rows the sequence of rows in frame order, each row a      *)
(* function from cols to cell values.  Numeric cells are integers, text    *)
(* cells are strings; a missing cell is NaN in a numeric column and NoText *)
(* in a text column.  Timestamps are whole hours since an epoch unless a   *)
(* definition says otherwise.                                              *)
(***************************************************************************)
EXTENDS Integers, Sequences, FiniteSets, TLC

VARIABLES
    pc,          \* position of the modelled run
    source,      \* SpecClean: which silver table is being produced
    raw,         \* SpecClean: the raw table read from the bronze file
    cleaned,     \* SpecClean: [df, metrics] of the first cleaning
    recleaned,   \* SpecClean: [df, metrics] of cleaning the cleaned table
    silver,      \* SpecRun: the three cleaned tables of DataCleaner.run
    aligned,     \* SpecRun: the three tables align_cities returned
    dropped_log, \* SpecRun: the "Dropped from <source>: n cities" lines printed
    city_name,   \* SpecResolve: the free-text city name given to the resolvers
    resolved,    \* SpecResolve: what each resolver returned for city_name
    frame,       \* SpecFeat: the merged table the features are derived from
    rolled,      \* SpecFeat: what create_rolling_averages returned for frame
    lagged,      \* SpecFeat: what create_lag_features returned for frame
    shuffled,    \* SpecFeat: what create_lag_features returned for reordered frame
    gold,        \* SpecRun: the table GoldLayerBuilder.merge_datasets returned
    regold,      \* SpecRun: the same for the silver tables in another row order
    gold_log,    \* SpecRun: the lines GoldLayerBuilder.run printed
    inputs,      \* SpecMerge: the three tables and the strategy given to the integrator
    merged,      \* SpecMerge: what DataIntegrator.merge_datasets returned
    disk,        \* SpecSave: the content of each file of the silver directory
    disk_before, \* SpecSave: the content of each file when the run started
    saving,      \* SpecSave: the tables DataCleaner.run saves, and the next file
    featured,    \* SpecFamilies: the columns of the merged table, and what the
                 \* feature functions made of them
    hourly,      \* SpecAlign: a cleaned table, and align_temporal_resolution of it
    bucketed,    \* SpecBuckets: a value, and the category each pd.cut gave it
    held,        \* SpecFrame: the tables a caller passed to a stage, and its result
    weather_run, \* SpecWeather: the state of a WeatherCollector and its run
    traffic_run, \* SpecTraffic: the state of TrafficCollector.collect_traffic_data
    units        \* SpecUnits: a table, and standardize_units of it, once and twice

vars == <<pc, source, raw, cleaned, recleaned, silver, aligned, dropped_log,
          city_name, resolved, frame, rolled, lagged, shuffled, gold, regold,
          gold_log, inputs, merged, disk, disk_before,
          saving, featured, hourly, bucketed, held, weather_run, traffic_run,
          units>>

\* the variables of the other specifications, which a specification leaves alone
cleanVars == <<source, raw, cleaned, recleaned>>
runVars == <<silver, aligned, dropped_log, gold, regold, gold_log>>
resolveVars == <<city_name, resolved>>
mergeVars == <<inputs, merged>>
featVars == <<frame, rolled, lagged, shuffled>>
saveVars == <<disk, disk_before, saving>>
familyVars == <<featured>>
alignVars == <<hourly>>
callVars == <<bucketed, held, weather_run, traffic_run, units>>

-----------------------------------------------------------------------------
(* Cells, rows, tables                                                     *)

\* numpy.nan / NaT in a numeric or datetime column
NaN == -1000000

\* a missing value in a text column (city_key, station_name, ...)
NoText == ""

\* the columns that hold text
TextCols ==
    {"city_key", "city", "city_aq", "city_traffic", "station_name", "station_code",
     "data_source"}

IsNull(c, v) == IF c \in TextCols THEN v = NoText ELSE v = NaN

NullOf(c) == IF c \in TextCols THEN NoText ELSE NaN

Table(cols, rows) == [cols |-> cols, rows |-> rows]

Len0(t) == Len(t.rows)

Idx(t) == 1..Len(t.rows)

\* df.isnull().sum().sum()
CountNulls(t) ==
    LET RECURSIVE Cnt(_, _)
        Cnt(i, cs) ==
            IF i > Len(t.rows) THEN 0
            ELSE IF cs = {} THEN Cnt(i + 1, t.cols)
            ELSE LET c == CHOOSE x \in cs : TRUE
                 IN  (IF IsNull(c, t.rows[i][c]) THEN 1 ELSE 0) + Cnt(i, cs \ {c})
    IN  IF t.cols = {} THEN 0 ELSE Cnt(1, t.cols)

\* df[c] = f(row index): replace or add one column
SetCol(t, c, f(_)) ==
    Table(t.cols \cup {c},
          [i \in Idx(t) |-> [k \in t.cols \cup {c} |->
                                IF k = c THEN f(i) ELSE t.rows[i][k]]])

\* df.drop(columns=cs)
DropCols(t, cs) ==
    Table(t.cols \ cs, [i \in Idx(t) |-> [k \in t.cols \ cs |-> t.rows[i][k]]])

\* Series.fillna(value)
FillnaCol(t, c, v) ==
    SetCol(t, c, LAMBDA i : IF IsNull(c, t.rows[i][c]) THEN v ELSE t.rows[i][c])

\* Series.fillna(method='ffill') on the positions in pos (a group, or all rows)
FfillAt(t, c, i, pos) ==
    LET prev == {j \in pos : j <= i /\ ~IsNull(c, t.rows[j][c])}
    IN  IF prev = {} THEN NullOf(c)
        ELSE t.rows[CHOOSE j \in prev : \A k \in prev : k <= j][c]

\* Series.fillna(method='ffill').fillna(method='bfill') on the positions in pos
FfillBfillAt(t, c, i, pos) ==
    LET fwd  == FfillAt(t, c, i, pos)
        next == {j \in pos : j >= i /\ ~IsNull(c, t.rows[j][c])}
    IN  IF ~IsNull(c, fwd) THEN fwd
        ELSE IF next = {} THEN NullOf(c)
        ELSE t.rows[CHOOSE j \in next : \A k \in next : j <= k][c]

\* DataFrame.fillna(method='ffill').fillna(method='bfill'): every column, in
\* frame order, regardless of city
FfillBfillFrame(t) ==
    Table(t.cols, [i \in Idx(t) |-> [c \in t.cols |-> FfillBfillAt(t, c, i, Idx(t))]])

\* DataFrame.fillna(0)
FillnaZero(c, v) == IF ~IsNull(c, v) THEN v ELSE IF c \in TextCols THEN "0" ELSE 0

FillnaFrame(t) ==
    Table(t.cols, [i \in Idx(t) |-> [c \in t.cols |-> FillnaZero(c, t.rows[i][c])]])

SameKey(r1, r2) == r1["city_key"] = r2["city_key"] /\ r1["datetime"] = r2["datetime"]

\* mutant: no row is recognised as a duplicate
KeepAllRows(t) == t

\* df.drop_duplicates(subset=['city_key', 'datetime'], keep='first')
DropDuplicates(t) ==
    LET keep == {i \in Idx(t) : \A j \in 1..(i - 1) : ~SameKey(t.rows[j], t.rows[i])}
        RECURSIVE Pick(_)
        Pick(i) == IF i > Len(t.rows) THEN <<>>
                   ELSE (IF i \in keep THEN <<t.rows[i]>> ELSE <<>>) \o Pick(i + 1)
    IN  Table(t.cols, Pick(1))

\* Series.clip(lo, hi); NaN stays NaN
ClipValue(v, lo, hi) == IF v = NaN THEN v ELSE IF v < lo THEN lo ELSE IF v > hi THEN hi ELSE v

ClipLower(v, lo) == IF v = NaN THEN v ELSE IF v < lo THEN lo ELSE v

ClipCol(t, c, lo, hi) == SetCol(t, c, LAMBDA i : ClipValue(t.rows[i][c], lo, hi))

\* mask.sum() for mask = (df[c] < lo) | (df[c] > hi)
CountOutside(t, c, lo, hi) ==
    Cardinality({i \in Idx(t) : t.rows[i][c] # NaN /\ (t.rows[i][c] < lo \/ t.rows[i][c] > hi)})

\* mask.sum() for mask = df[c] < lo
CountBelow(t, c, lo) ==
    Cardinality({i \in Idx(t) : t.rows[i][c] # NaN /\ t.rows[i][c] < lo})

\* the collation order of the city names and keys of the model; a missing
\* value sorts last
CityOrder ==
    <<"0", "Berlin", "Düsseldorf", "Munich", "atlantis", "berlin", "cologne", "dusseldorf", "düsseldorf", "frankfurt",
      "hamburg", "munich", "nan", NoText>>

CityRank(c) == CHOOSE n \in 1..Len(CityOrder) : CityOrder[n] = c

TimeRank(d) == IF d = NaN THEN 1000000 ELSE d

KeyLeq(r1, r2) ==
    \/ CityRank(r1["city_key"]) < CityRank(r2["city_key"])
    \/ /\ r1["city_key"] = r2["city_key"]
       /\ TimeRank(r1["datetime"]) <= TimeRank(r2["datetime"])

\* a stable sort of a sequence of rows by Leq (pandas sorts several keys stably)
StableSort(rows, Leq(_, _)) ==
    LET RECURSIVE Ins(_, _)
        Ins(r, s) == IF s = <<>> THEN <<r>>
                     ELSE IF Leq(s[Len(s)], r) THEN Append(s, r)
                     ELSE Append(Ins(r, SubSeq(s, 1, Len(s) - 1)), s[Len(s)])
        RECURSIVE Srt(_)
        Srt(n) == IF n = 0 THEN <<>> ELSE Ins(rows[n], Srt(n - 1))
    IN  Srt(Len(rows))

\* mutant: the sorted frame loses its last row
SortAndTrim(t) ==
    Table(t.cols, SubSeq(StableSort(t.rows, KeyLeq), 1, Len(t.rows) - 1))

\* df.sort_values(['city_key', 'datetime']).reset_index(drop=True)
SortByKey(t) == Table(t.cols, StableSort(t.rows, KeyLeq))

-----------------------------------------------------------------------------
(* DataCleaner (bronze -> silver)                                          *)

TempMin == -40
TempMax == 50
HumidityMin == 0
HumidityMax == 100
WindMin == 0
WindMax == 50
PrecipMin == 0
PollutantMin == 0
PollutantMax == 500
TrafficIndexMin == 0
TrafficIndexMax == 100
CongestionMin == 0
CongestionMax == 1
SpeedMin == 0
SpeedMax == 200
NightEndHour == 6
NightStartHour == 22

\* null_pct > 0.3 with null_pct = nulls / len(df), as nulls * 10 > 3 * len(df)
DropPctNum == 3
DropPctDen == 10

Metrics(rb, ra, dup, nf, oc) ==
    [rows_before |-> rb, rows_after |-> ra, duplicates_removed |-> dup,
     nulls_filled |-> nf, outliers_clipped |-> oc]

NullsInCol(t, c) == Cardinality({i \in Idx(t) : IsNull(c, t.rows[i][c])})

\* Series.median(): the middle of the sorted non-missing values, the mean of
\* the two middle ones when their number is even (whole when both are even)
Median(t, c) ==
    LET present == SelectSeq(t.rows, LAMBDA r : ~IsNull(c, r[c]))
        srt     == StableSort(present, LAMBDA a, b : a[c] <= b[c])
        n       == Len(srt)
    IN  IF n = 0 THEN NaN
        ELSE IF n % 2 = 1 THEN srt[(n + 1) \div 2][c]
        ELSE (srt[n \div 2][c] + srt[n \div 2 + 1][c]) \div 2

\* the loop over ['wpgt', 'tsun', 'dwpt']: which columns are dropped
SparseCols(t) ==
    {c \in {"wpgt", "tsun", "dwpt"} \cap t.cols :
        NullsInCol(t, c) * DropPctDen > DropPctNum * Len0(t)}

\* the same loop: the other columns are filled with their median
MedianFill(t) ==
    LET RECURSIVE Fill(_, _)
        Fill(u, cs) ==
            IF cs = <<>> THEN u
            ELSE LET c == Head(cs)
                 IN  IF c \in u.cols /\ c \notin SparseCols(t)
                     THEN Fill(FillnaCol(u, c, Median(u, c)), Tail(cs))
                     ELSE Fill(u, Tail(cs))
    IN  Fill(t, <<"wpgt", "tsun", "dwpt">>)

\* df['is_night'] = (df['hour'] < 6) | (df['hour'] >= 22), as 1 / 0
IsNight(h) == IF h < NightEndHour \/ h >= NightStartHour THEN 1 ELSE 0

AddIsNight(t) == SetCol(t, "is_night", LAMBDA i : IsNight(t.rows[i]["hour"]))

\* count and clip the listed columns that the frame has
CountOutsideCols(t, cs, lo, hi) ==
    LET RECURSIVE Cnt(_)
        Cnt(s) == IF s = <<>> THEN 0
                  ELSE (IF Head(s) \in t.cols THEN CountOutside(t, Head(s), lo, hi) ELSE 0)
                       + Cnt(Tail(s))
    IN  Cnt(cs)

CountBelowCols(t, cs, lo) ==
    LET RECURSIVE Cnt(_)
        Cnt(s) == IF s = <<>> THEN 0
                  ELSE (IF Head(s) \in t.cols THEN CountBelow(t, Head(s), lo) ELSE 0)
                       + Cnt(Tail(s))
    IN  Cnt(cs)

ClipCols(t, cs, lo, hi) ==
    LET RECURSIVE Clp(_, _)
        Clp(u, s) == IF s = <<>> THEN u
                     ELSE Clp(IF Head(s) \in u.cols THEN ClipCol(u, Head(s), lo, hi) ELSE u,
                              Tail(s))
    IN  Clp(t, cs)

\* mutant: the range step of clean_weather leaves temperature as it is
WeatherRangesNoTemp(t) ==
    LET t2 == ClipCols(t, <<"humidity">>, HumidityMin, HumidityMax)
        t3 == ClipCols(t2, <<"wind_speed">>, WindMin, WindMax)
    IN  IF "precipitation" \in t3.cols
        THEN SetCol(t3, "precipitation",
                    LAMBDA i : ClipLower(t3.rows[i]["precipitation"], PrecipMin))
        ELSE t3

\* clean_weather step 4: the clipped frame
WeatherRanges(t) ==
    LET t1 == ClipCol(t, "temperature", TempMin, TempMax)
        t2 == ClipCols(t1, <<"humidity">>, HumidityMin, HumidityMax)
        t3 == ClipCols(t2, <<"wind_speed">>, WindMin, WindMax)
    IN  IF "precipitation" \in t3.cols
        THEN SetCol(t3, "precipitation",
                    LAMBDA i : ClipLower(t3.rows[i]["precipitation"], PrecipMin))
        ELSE t3

\* clean_weather step 4: outliers_clipped
WeatherOutliers(t) ==
    CountOutside(t, "temperature", TempMin, TempMax)
    + CountOutsideCols(t, <<"humidity">>, HumidityMin, HumidityMax)
    + CountBelowCols(t, <<"wind_speed">>, WindMin)
    + CountBelowCols(t, <<"precipitation">>, PrecipMin)

\* DataCleaner.clean_weather on the frame read from the raw file
clean_weather(df) ==
    LET nulls_before == CountNulls(df)
        s1 == IF "snow" \in df.cols THEN FillnaCol(df, "snow", 0) ELSE df
        s2 == DropCols(MedianFill(s1), SparseCols(s1))
        s3 == FfillBfillFrame(s2)
        nulls_after == CountNulls(s3)
        s4 == DropDuplicates(s3)
        s5 == WeatherRanges(s4)
        s6 == SortByKey(AddIsNight(s5))
    IN  [df |-> s6,
         metrics |-> Metrics(Len0(df), Len0(s6), Len0(s3) - Len0(s4),
                             nulls_before - nulls_after, WeatherOutliers(s4))]

PollutantCols == <<"no2", "pm10", "o3">>

\* mutant: the column is filled in frame order regardless of city
FrameFill(t, c) == SetCol(t, c, LAMBDA i : FfillBfillAt(t, c, i, Idx(t)))

\* df.groupby('city_key')[c].transform(ffill then bfill): a row is filled from
\* the rows of its own city_key; a row without a city_key is in no group
GroupFill(t, c) ==
    SetCol(t, c, LAMBDA i :
        IF IsNull("city_key", t.rows[i]["city_key"]) THEN NaN
        ELSE FfillBfillAt(t, c, i,
                 {j \in Idx(t) : t.rows[j]["city_key"] = t.rows[i]["city_key"]}))

GroupFillCols(t) ==
    LET RECURSIVE Fill(_, _)
        Fill(u, s) == IF s = <<>> THEN u
                      ELSE Fill(IF Head(s) \in u.cols THEN GroupFill(u, Head(s)) ELSE u,
                                Tail(s))
    IN  Fill(t, PollutantCols)

\* df[pollutant_cols].mean(axis=1) over the pollutant columns the frame has
AqiAvg(t, i) ==
    LET have == SelectSeq(PollutantCols, LAMBDA c : c \in t.cols)
        RECURSIVE Sum(_)
        Sum(s) == IF s = <<>> THEN 0 ELSE t.rows[i][Head(s)] + Sum(Tail(s))
    IN  Sum(have) \div Len(have)

AddAqiAvg(t) ==
    IF \E k \in 1..Len(PollutantCols) : PollutantCols[k] \in t.cols
    THEN SetCol(t, "aqi_avg", LAMBDA i : AqiAvg(t, i))
    ELSE t

\* DataCleaner.clean_air_quality on the frame read from the raw file
clean_air_quality(df) ==
    LET nulls_before == CountNulls(df)
        s1 == FillnaFrame(GroupFillCols(df))
        nulls_after == CountNulls(s1)
        s2 == DropDuplicates(s1)
        s3 == ClipCols(s2, PollutantCols, PollutantMin, PollutantMax)
        s4 == DropCols(s3, {"station_name", "station_id"} \cap s3.cols)
        s5 == SortByKey(AddAqiAvg(AddIsNight(s4)))
    IN  [df |-> s5,
         metrics |-> Metrics(Len0(df), Len0(s5), Len0(s1) - Len0(s2),
                             nulls_before - nulls_after,
                             CountOutsideCols(s2, PollutantCols, PollutantMin, PollutantMax))]

SpeedCols == <<"current_speed", "free_flow_speed">>

\* clean_traffic step 4: the clipped frame
TrafficRanges(t) ==
    LET t1 == ClipCols(t, <<"traffic_index">>, TrafficIndexMin, TrafficIndexMax)
        t2 == ClipCols(t1, <<"congestion_level">>, CongestionMin, CongestionMax)
    IN  ClipCols(t2, SpeedCols, SpeedMin, SpeedMax)

\* clean_traffic step 4: outliers_clipped
TrafficOutliers(t) ==
    CountOutsideCols(t, <<"traffic_index">>, TrafficIndexMin, TrafficIndexMax)
    + CountOutsideCols(t, <<"congestion_level">>, CongestionMin, CongestionMax)
    + CountBelowCols(t, SpeedCols, SpeedMin)

\* DataCleaner.clean_traffic on the frame read from the raw file
clean_traffic(df) ==
    LET nulls_before == CountNulls(df)
        s1 == FillnaFrame(FfillBfillFrame(df))
        nulls_after == CountNulls(s1)
        s2 == DropDuplicates(s1)
        s3 == TrafficRanges(s2)
        s4 == DropCols(s3, {"data_source", "confidence"} \cap s3.cols)
        s5 == SortByKey(AddIsNight(s4))
    IN  [df |-> s5,
         metrics |-> Metrics(Len0(df), Len0(s5), Len0(s1) - Len0(s2),
                             nulls_before - nulls_after, TrafficOutliers(s2))]

-----------------------------------------------------------------------------
(* SpecClean: one silver table is produced from one raw file, and the      *)
(* cleaning is applied once more to what it produced                       *)

\* the longest raw table of SpecClean
MaxRows == 2

Sources == {"weather", "air_quality", "traffic"}

Unset == Table({}, <<>>)

NoResult == [df |-> Unset, metrics |-> Metrics(0, 0, 0, 0, 0)]

NoTables == [weather |-> Unset, air_quality |-> Unset, traffic |-> Unset]

\* (city_key, datetime) of the raw rows; the collectors write hour = the hour
\* of datetime
RawKeys == {<<"berlin", 1>>, <<"berlin", 2>>, <<"munich", 1>>}

HourOf(d) == IF d = NaN THEN 0 ELSE d % 24

Override(r, c, v) == [k \in DOMAIN r |-> IF k = c THEN v ELSE r[k]]

WeatherBase(k) ==
    [city_key |-> k[1], datetime |-> k[2], hour |-> HourOf(k[2]), temperature |-> 15,
     humidity |-> 50, wind_speed |-> 5, pressure |-> 1000, wpgt |-> 10]

WeatherCells ==
    {<<"temperature", 15>>, <<"temperature", NaN>>, <<"temperature", -45>>,
     <<"temperature", -35>>, <<"temperature", 60>>, <<"humidity", 105>>,
     <<"wind_speed", -5>>, <<"wind_speed", 60>>, <<"pressure", 700>>, <<"wpgt", NaN>>}

AirBase(k) ==
    [city_key |-> k[1], datetime |-> k[2], hour |-> HourOf(k[2]), no2 |-> 20,
     pm10 |-> 40, station_name |-> "DEBE010"]

AirCells ==
    {<<"no2", 20>>, <<"no2", NaN>>, <<"no2", -6>>, <<"no2", 600>>,
     <<"pm10", NaN>>, <<"pm10", 700>>}

TrafficBase(k) ==
    [city_key |-> k[1], datetime |-> k[2], hour |-> HourOf(k[2]), traffic_index |-> 40,
     congestion_level |-> 0, current_speed |-> 30, data_source |-> "synthetic"]

TrafficCells ==
    {<<"traffic_index", 40>>, <<"traffic_index", NaN>>, <<"traffic_index", -5>>,
     <<"traffic_index", 150>>, <<"congestion_level", 2>>, <<"current_speed", -5>>,
     <<"current_speed", 250>>}

\* rows whose city_key or datetime cell is empty (weather and traffic frames
\* are filled across every column, the key columns included)
NullKeys == {<<NoText, 1>>, <<"munich", NaN>>}

\* the rows a raw file of the source may hold: a well-formed row with one cell
\* of interest, or a row with an empty key cell
RawRows(s) ==
    IF s = "weather"
    THEN {Override(WeatherBase(k), x[1], x[2]) : k \in RawKeys, x \in WeatherCells}
         \cup {WeatherBase(k) : k \in NullKeys}
    ELSE IF s = "air_quality"
    THEN {Override(AirBase(k), x[1], x[2]) : k \in RawKeys, x \in AirCells}
    ELSE {Override(TrafficBase(k), x[1], x[2]) : k \in RawKeys, x \in TrafficCells}
         \cup {TrafficBase(k) : k \in NullKeys}

RawCols(s) ==
    IF s = "weather" THEN DOMAIN WeatherBase(<<"berlin", 1>>)
    ELSE IF s = "air_quality" THEN DOMAIN AirBase(<<"berlin", 1>>)
    ELSE DOMAIN TrafficBase(<<"berlin", 1>>)

SeqsUpTo(S, n) == UNION {[1..m -> S] : m \in 0..n}

RawTables(s) == {Table(RawCols(s), rows) : rows \in SeqsUpTo(RawRows(s), MaxRows)}

\* the variables of a specification that is not the one being run
CleanIdle == source = "weather" /\ raw = Unset /\ cleaned = NoResult /\ recleaned = NoResult
RunIdle ==
    /\ silver = NoTables /\ aligned = NoTables /\ dropped_log = {}
    /\ gold = Unset /\ regold = Unset /\ gold_log = <<>>
ResolveIdle == city_name = NoText /\ resolved = <<>>
MergeIdle == inputs = <<>> /\ merged = <<>>
FeatIdle == frame = Unset /\ rolled = <<>> /\ lagged = <<>> /\ shuffled = <<>>
SaveIdle == disk = <<>> /\ disk_before = <<>> /\ saving = <<>>
FamilyIdle == featured = <<>>
AlignIdle == hourly = <<>>
CallIdle ==
    /\ bucketed = <<>> /\ held = <<>> /\ weather_run = <<>> /\ traffic_run = <<>>
    /\ units = <<>>

InitClean ==
    /\ pc = "loaded"
    /\ source \in Sources
    /\ raw \in RawTables(source)
    /\ cleaned = NoResult
    /\ recleaned = NoResult
    /\ RunIdle /\ ResolveIdle /\ MergeIdle /\ FeatIdle /\ SaveIdle
    /\ FamilyIdle /\ AlignIdle /\ CallIdle

CleanWeather ==
    /\ pc = "loaded" /\ source = "weather"
    /\ cleaned' = clean_weather(raw)
    /\ pc' = "cleaned"
    /\ UNCHANGED <<source, raw, recleaned>>
    /\ UNCHANGED <<runVars, resolveVars, mergeVars, featVars,
                   saveVars, familyVars, alignVars, callVars>>

CleanAirQuality ==
    /\ pc = "loaded" /\ source = "air_quality"
    /\ cleaned' = clean_air_quality(raw)
    /\ pc' = "cleaned"
    /\ UNCHANGED <<source, raw, recleaned>>
    /\ UNCHANGED <<runVars, resolveVars, mergeVars, featVars,
                   saveVars, familyVars, alignVars, callVars>>

CleanTraffic ==
    /\ pc = "loaded" /\ source = "traffic"
    /\ cleaned' = clean_traffic(raw)
    /\ pc' = "cleaned"
    /\ UNCHANGED <<source, raw, recleaned>>
    /\ UNCHANGED <<runVars, resolveVars, mergeVars, featVars,
                   saveVars, familyVars, alignVars, callVars>>

\* the source's cleaning applied to a table
Clean(s, df) ==
    IF s = "weather" THEN clean_weather(df)
    ELSE IF s = "air_quality" THEN clean_air_quality(df)
    ELSE clean_traffic(df)

\* the cleaned table is the next run's input
CleanAgain ==
    /\ pc = "cleaned"
    /\ recleaned' = Clean(source, cleaned.df)
    /\ pc' = "recleaned"
    /\ UNCHANGED <<source, raw, cleaned>>
    /\ UNCHANGED <<runVars, resolveVars, mergeVars, featVars,
                   saveVars, familyVars, alignVars, callVars>>

NextClean == CleanWeather \/ CleanAirQuality \/ CleanTraffic \/ CleanAgain

SpecClean == InitClean /\ [][NextClean]_vars

-----------------------------------------------------------------------------
(* Claims on the cleaning (SpecClean)                                      *)

HasDuplicateKey(t) ==
    \E i, j \in Idx(t) : i < j /\ SameKey(t.rows[i], t.rows[j])

\* C2: for every source and every raw table, in any row order and with any
\* number of repeated rows, the cleaned table holds no two rows with the same
\* (city_key, timestamp) pair.
C2_NoDuplicateKeys ==
    pc \in {"cleaned", "recleaned"} => ~HasDuplicateKey(cleaned.df)

\* a raw table with a repeated key has been cleaned
C2_Witness ==
    /\ pc = "cleaned"
    /\ HasDuplicateKey(raw)
    /\ cleaned.metrics.duplicates_removed > 0

\* the valid ranges the repository declares (data dictionary, "Units and
\* Standards")
DeclTempMin == -30
DeclTempMax == 50
DeclHumidityMin == 0
DeclHumidityMax == 100
DeclWindMin == 0
DeclWindMax == 200
DeclPressureMin == 800
DeclPressureMax == 1100
DeclPollutantMin == 0
DeclNo2Max == 500
DeclPm10Max == 1000
DeclO3Max == 500

DeclaredRange ==
    [temperature      |-> <<DeclTempMin, DeclTempMax>>,
     humidity         |-> <<DeclHumidityMin, DeclHumidityMax>>,
     wind_speed       |-> <<DeclWindMin, DeclWindMax>>,
     pressure         |-> <<DeclPressureMin, DeclPressureMax>>,
     no2              |-> <<DeclPollutantMin, DeclNo2Max>>,
     pm10             |-> <<DeclPollutantMin, DeclPm10Max>>,
     o3               |-> <<DeclPollutantMin, DeclO3Max>>,
     traffic_index    |-> <<TrafficIndexMin, TrafficIndexMax>>,
     congestion_level |-> <<CongestionMin, CongestionMax>>]

InDeclaredRange(t) ==
    \A i \in Idx(t) : \A c \in t.cols \cap DOMAIN DeclaredRange :
        t.rows[i][c] # NaN =>
            /\ DeclaredRange[c][1] <= t.rows[i][c]
            /\ t.rows[i][c] <= DeclaredRange[c][2]

\* C3: after cleaning (clip mode), every non-null value of a column with a
\* declared valid range lies within that range.
C3_WithinDeclaredRange ==
    pc \in {"cleaned", "recleaned"} => InDeclaredRange(cleaned.df)

-----------------------------------------------------------------------------
(* pandas.merge                                                            *)

MapRows(rows, f(_)) == [i \in 1..Len(rows) |-> f(rows[i])]

\* the rows of the sequence that satisfy Test, in order
FilterRows(rows, Test(_)) == SelectSeq(rows, Test)

RECURSIVE Flatten(_)
Flatten(ss) == IF ss = <<>> THEN <<>> ELSE Head(ss) \o Flatten(Tail(ss))

\* sort order of the join keys city_key and timecol
JoinKeyLeq(r1, r2, timecol) ==
    \/ CityRank(r1["city_key"]) < CityRank(r2["city_key"])
    \/ /\ r1["city_key"] = r2["city_key"]
       /\ TimeRank(r1[timecol]) <= TimeRank(r2[timecol])

HourKeyLeq(r1, r2) == JoinKeyLeq(r1, r2, "datetime_hour")

\* pd.merge(left, right, on=on, how=how, suffixes=('', rsuffix)) for
\* on = {"city_key", timecol}: a column of
\* the right frame that the left frame also has, other than a join key, gets
\* the suffix; an inner join keeps the order of the left rows, an outer join
\* sorts the result by the join keys
Merge(left, right, timecol, how, rsuffix) ==
    LET on       == {"city_key", timecol}
        overlap  == (left.cols \cap right.cols) \ on
        RName(c) == IF c \in overlap THEN c \o rsuffix ELSE c
        rcols    == right.cols \ on
        outcols  == left.cols \cup {RName(c) : c \in rcols}
        Src(c)   == CHOOSE x \in rcols : RName(x) = c
        KeyEq(l, r) == \A k \in on : l[k] = r[k]
        Joined(l, r) ==
            [c \in outcols |-> IF c \in left.cols THEN l[c] ELSE r[Src(c)]]
        LeftOnly(l) ==
            [c \in outcols |-> IF c \in left.cols THEN l[c] ELSE NullOf(Src(c))]
        RightOnly(r) ==
            [c \in outcols |-> IF c \in on THEN r[c]
                               ELSE IF c \in left.cols THEN NullOf(c)
                               ELSE r[Src(c)]]
        MatchesOf(l) == FilterRows(right.rows, LAMBDA r : KeyEq(l, r))
        RowsOf(l) ==
            IF MatchesOf(l) # <<>> THEN MapRows(MatchesOf(l), LAMBDA r : Joined(l, r))
            ELSE IF how \in {"outer", "left"} THEN <<LeftOnly(l)>>
            ELSE <<>>
        Unmatched(r) == \A i \in 1..Len(left.rows) : ~KeyEq(left.rows[i], r)
        rightOnly ==
            IF how \in {"outer", "right"}
            THEN MapRows(FilterRows(right.rows, Unmatched), RightOnly)
            ELSE <<>>
        rows == Flatten(MapRows(left.rows, RowsOf)) \o rightOnly
    IN  Table(outcols,
              IF how = "outer"
              THEN StableSort(rows, LAMBDA r1, r2 : JoinKeyLeq(r1, r2, timecol))
              ELSE rows)

-----------------------------------------------------------------------------
(* GoldLayerBuilder (scripts/transform/gold_layer.py)                      *)

GoldWeatherCols ==
    {"city_key", "datetime", "city", "lat", "lon", "temperature", "humidity",
     "precipitation", "wind_speed", "wind_direction", "pressure", "weather_code",
     "date", "hour", "month", "day_of_week", "is_night", "is_weekday"}

GoldAqCols == {"city_key", "datetime", "no2", "pm10", "o3", "aqi_avg"}

GoldTrafficCols ==
    {"city_key", "datetime", "current_speed", "free_flow_speed", "congestion_level",
     "traffic_index", "is_rush_hour", "is_weekend", "is_holiday", "holiday_name"}

\* df[[c for c in cols if c in df.columns]].copy()
Subset(df, cols) == DropCols(df, df.cols \ cols)

\* GoldLayerBuilder.merge_datasets: two inner merges on city_key, datetime
gold_merge_datasets(weather_df, aq_df, traffic_df) ==
    LET m1 == Merge(Subset(weather_df, GoldWeatherCols), Subset(aq_df, GoldAqCols),
                    "datetime", "inner", "_y")
    IN  Merge(m1, Subset(traffic_df, GoldTrafficCols), "datetime", "inner", "_y")

-----------------------------------------------------------------------------
(* SpecRun: DataCleaner.run cleans the latest raw file of every source and *)
(* aligns the cities of the three cleaned tables                           *)

\* the longest raw table of SpecRun
MaxRunRows == 3

RunKeys == {<<"berlin", 1>>, <<"berlin", 2>>, <<"hamburg", 1>>, <<"munich", 1>>}

RunRows(s) ==
    IF s = "weather" THEN {WeatherBase(k) : k \in RunKeys}
    ELSE IF s = "air_quality" THEN {AirBase(k) : k \in RunKeys}
    ELSE {TrafficBase(k) : k \in RunKeys}

RunTables(s) == {Table(RawCols(s), rows) : rows \in SeqsUpTo(RunRows(s), MaxRunRows)}

\* set(df['city_key'].unique())
Cities(t) == {t.rows[i]["city_key"] : i \in Idx(t)}

\* mutant: the traffic table is left out of the intersection
CommonWeatherAir(w, a, t) == Cities(w) \cap Cities(a)

\* common_cities = weather_cities & aq_cities & traffic_cities
CommonCities(w, a, t) == Cities(w) \cap Cities(a) \cap Cities(t)

\* df[df['city_key'].isin(common_cities)]
FilterCities(t, common) ==
    Table(t.cols, SelectSeq(t.rows, LAMBDA r : r["city_key"] \in common))

\* if dropped: print("Dropped from <source>: n cities")
DroppedLine(name, dropped) ==
    IF dropped # {} THEN {<<name, Cardinality(dropped)>>} ELSE {}

\* DataCleaner.align_cities: the three filtered tables and the lines printed
\* for the sources that lost cities
align_cities(w, a, t) ==
    LET common == CommonCities(w, a, t)
    IN  [tables  |-> [weather     |-> FilterCities(w, common),
                      air_quality |-> FilterCities(a, common),
                      traffic     |-> FilterCities(t, common)],
         printed |-> DroppedLine("weather", Cities(w) \ common)
                     \cup DroppedLine("air_quality", Cities(a) \ common)
                     \cup DroppedLine("traffic", Cities(t) \ common)]

InitRun ==
    /\ pc = "start"
    /\ silver = NoTables /\ aligned = NoTables /\ dropped_log = {}
    /\ gold = Unset /\ regold = Unset /\ gold_log = <<>>
    /\ CleanIdle /\ ResolveIdle /\ MergeIdle /\ FeatIdle /\ SaveIdle
    /\ FamilyIdle /\ AlignIdle /\ CallIdle

RunCleanWeather ==
    /\ pc = "start"
    /\ \E file \in RunTables("weather") :
          silver' = [silver EXCEPT !.weather = clean_weather(file).df]
    /\ pc' = "weather_cleaned"
    /\ UNCHANGED <<aligned, dropped_log, gold, regold, gold_log>>
    /\ UNCHANGED <<cleanVars, resolveVars, mergeVars, featVars,
                   saveVars, familyVars, alignVars, callVars>>

RunCleanAirQuality ==
    /\ pc = "weather_cleaned"
    /\ \E file \in RunTables("air_quality") :
          silver' = [silver EXCEPT !.air_quality = clean_air_quality(file).df]
    /\ pc' = "air_quality_cleaned"
    /\ UNCHANGED <<aligned, dropped_log, gold, regold, gold_log>>
    /\ UNCHANGED <<cleanVars, resolveVars, mergeVars, featVars,
                   saveVars, familyVars, alignVars, callVars>>

RunCleanTraffic ==
    /\ pc = "air_quality_cleaned"
    /\ \E file \in RunTables("traffic") :
          silver' = [silver EXCEPT !.traffic = clean_traffic(file).df]
    /\ pc' = "traffic_cleaned"
    /\ UNCHANGED <<aligned, dropped_log, gold, regold, gold_log>>
    /\ UNCHANGED <<cleanVars, resolveVars, mergeVars, featVars,
                   saveVars, familyVars, alignVars, callVars>>

AlignCities ==
    /\ pc = "traffic_cleaned"
    /\ LET res == align_cities(silver.weather, silver.air_quality, silver.traffic)
       IN  aligned' = res.tables /\ dropped_log' = res.printed
    /\ pc' = "aligned"
    /\ UNCHANGED <<silver, gold, regold, gold_log>>
    /\ UNCHANGED <<cleanVars, resolveVars, mergeVars, featVars,
                   saveVars, familyVars, alignVars, callVars>>

\* a printed line: its text and the row count it carries (NaN when it has none)
Line(text) == [text |-> text, n |-> NaN]

LineN(text, n) == [text |-> text, n |-> n]

\* the headlines and row counts GoldLayerBuilder.run prints, in order: run has
\* no branch on the number of merged rows, and gold_layer.py prints no warning
\* anywhere (the derived columns add_gold_features appends are not modelled)
gold_run_log(weather_df, aq_df, traffic_df, gold_df) ==
    <<Line("GOLD LAYER CREATION PIPELINE (Silver -> Gold)"),
      Line("LOADING SILVER LAYER DATA"),
      LineN("Weather rows", Len0(weather_df)),
      LineN("Air Quality rows", Len0(aq_df)),
      LineN("Traffic rows", Len0(traffic_df)),
      Line("MERGING DATASETS"),
      LineN("Step 2: Merging with traffic... Result rows", Len0(gold_df)),
      Line("ADDING GOLD LAYER FEATURES"),
      Line("VALIDATING GOLD LAYER DATA"),
      Line("SAVING GOLD LAYER DATA"),
      LineN("Saved: unified_data.csv rows", Len0(gold_df)),
      Line("GOLD LAYER SUMMARY"),
      Line("GOLD LAYER CREATION COMPLETE!")>>

\* GoldLayerBuilder.run: the gold layer is built from the silver tables
\* DataCleaner.run saved
GoldMerge ==
    /\ pc = "aligned"
    /\ gold' = gold_merge_datasets(aligned.weather, aligned.air_quality, aligned.traffic)
    /\ gold_log' = gold_run_log(aligned.weather, aligned.air_quality, aligned.traffic,
                                gold')
    /\ pc' = "gold"
    /\ UNCHANGED <<silver, aligned, dropped_log, regold>>
    /\ UNCHANGED <<cleanVars, resolveVars, mergeVars, featVars,
                   saveVars, familyVars, alignVars, callVars>>

\* the table with rows i and j exchanged
Swap(t, i, j) ==
    Table(t.cols, [k \in Idx(t) |-> IF k = i THEN t.rows[j]
                                    ELSE IF k = j THEN t.rows[i] ELSE t.rows[k]])

\* the three tables with rows i and j of source s exchanged
Reordered(tables, s, i, j) == [tables EXCEPT ![s] = Swap(tables[s], i, j)]

\* the same merge on the same silver rows, one table in another row order
GoldMergeReordered ==
    /\ pc = "gold"
    /\ \E s \in Sources : \E i \in Idx(aligned[s]), j \in Idx(aligned[s]) :
          /\ i < j
          /\ LET t == Reordered(aligned, s, i, j)
             IN  regold' = gold_merge_datasets(t.weather, t.air_quality, t.traffic)
    /\ pc' = "regold"
    /\ UNCHANGED <<silver, aligned, dropped_log, gold, gold_log>>
    /\ UNCHANGED <<cleanVars, resolveVars, mergeVars, featVars,
                   saveVars, familyVars, alignVars, callVars>>

NextRun ==
    \/ RunCleanWeather \/ RunCleanAirQuality \/ RunCleanTraffic
    \/ AlignCities \/ GoldMerge \/ GoldMergeReordered

SpecRun == InitRun /\ [][NextRun]_vars

\* the city_key occurs in each of the three cleaned tables
InAllSources(c) ==
    \A s \in Sources : \E i \in Idx(silver[s]) : silver[s].rows[i]["city_key"] = c

\* the number of distinct cities of the source's cleaned table that are missing
\* from some cleaned table
LostCities(s) == Cardinality({c \in Cities(silver[s]) : ~InAllSources(c)})

\* C5: each table align_cities returns holds exactly the rows of its input
\* whose city_key occurs in all three inputs, in input order; no city outside
\* the intersection is left in any table; for each source that lost cities the
\* number of cities dropped from it is reported, and nothing is reported for a
\* source that lost none.
C5_AlignCities ==
    pc = "aligned" =>
        \A s \in Sources :
            /\ aligned[s].cols = silver[s].cols
            /\ aligned[s].rows =
                   SelectSeq(silver[s].rows, LAMBDA r : InAllSources(r["city_key"]))
            /\ \A i \in Idx(aligned[s]) : InAllSources(aligned[s].rows[i]["city_key"])
            /\ LostCities(s) > 0 => <<s, LostCities(s)>> \in dropped_log
            /\ LostCities(s) = 0 => ~\E n \in 0..MaxRunRows : <<s, n>> \in dropped_log

\* weather {berlin, munich, hamburg}, air quality {berlin, hamburg}, traffic
\* {berlin, munich, hamburg}: munich is dropped, one city reported for weather
\* and for traffic
C5_Witness ==
    /\ pc = "aligned"
    /\ Cities(silver.weather) = {"berlin", "munich", "hamburg"}
    /\ Cities(silver.air_quality) = {"berlin", "hamburg"}
    /\ Cities(silver.traffic) = {"berlin", "munich", "hamburg"}
    /\ Cities(aligned.weather) = {"berlin", "hamburg"}
    /\ Cities(aligned.traffic) = {"berlin", "hamburg"}
    /\ dropped_log = {<<"weather", 1>>, <<"traffic", 1>>}

\* the rows are in ascending (city_key, datetime) order
SortedByKey(t) == \A i \in 1..(Len(t.rows) - 1) : KeyLeq(t.rows[i], t.rows[i + 1])

\* C12: the merge result does not depend on the row order of its inputs: the
\* same three tables with the rows of one of them in another order give the
\* same rows in the same order, and the result is sorted by (city_key,
\* datetime).
C12_MergeDeterministic ==
    /\ pc \in {"gold", "regold"} => SortedByKey(gold)
    /\ pc = "regold" => (regold = gold /\ SortedByKey(regold))

\* the texts of the lines the gold run printed
GoldPrinted == {gold_log[i].text : i \in DOMAIN gold_log}

\* C16: when each silver table has rows and their inner join has none, the
\* gold run prints a warning and does not print the completion banner of a
\* normal run.
C16_EmptyJoinWarned ==
    (pc = "gold" /\ Len0(gold) = 0
        /\ \A s \in Sources : Len0(aligned[s]) > 0) =>
        /\ \E t \in GoldPrinted : t \in {"WARNING", "MergeCoverageWarning"}
        /\ "GOLD LAYER CREATION COMPLETE!" \notin GoldPrinted

-----------------------------------------------------------------------------
(* City registry and the two city-key resolvers                            *)

\* utils/config.py CITIES: the entries of the model (of 79), each with its
\* display name and name variations
CITIES ==
    [berlin     |-> [name |-> "Berlin", name_variations |-> {"Berlin", "BERLIN"}],
     munich     |-> [name |-> "Munich",
                     name_variations |-> {"Munich", "München", "MUNICH", "MÜNCHEN"}],
     hamburg    |-> [name |-> "Hamburg", name_variations |-> {"Hamburg", "HAMBURG"}],
     cologne    |-> [name |-> "Cologne",
                     name_variations |-> {"Cologne", "Köln", "COLOGNE", "KÖLN"}],
     frankfurt  |-> [name |-> "Frankfurt am Main",
                     name_variations |-> {"Frankfurt", "Frankfurt am Main", "FRANKFURT"}],
     dusseldorf |-> [name |-> "Düsseldorf",
                     name_variations |-> {"Düsseldorf", "Dusseldorf", "DÜSSELDORF",
                                          "DUSSELDORF"}]]

RegistryKeys == DOMAIN CITIES

\* the names the registry lists for a city
RegistryNames(k) == {CITIES[k].name} \cup CITIES[k].name_variations

\* str.lower() on the strings of the model; a string without an entry is
\* already lower case
LowerPairs ==
    {<<"Berlin", "berlin">>, <<"BERLIN", "berlin">>, <<" Berlin ", " berlin ">>,
     <<"Munich", "munich">>, <<"MUNICH", "munich">>,
     <<"München", "münchen">>, <<"MÜNCHEN", "münchen">>,
     <<"Hamburg", "hamburg">>, <<"HAMBURG", "hamburg">>,
     <<"Cologne", "cologne">>, <<"COLOGNE", "cologne">>,
     <<"Köln", "köln">>, <<"KÖLN", "köln">>,
     <<"Frankfurt", "frankfurt">>, <<"FRANKFURT", "frankfurt">>,
     <<"Frankfurt am Main", "frankfurt am main">>,
     <<"FRANKFURT AM MAIN", "frankfurt am main">>,
     <<"Düsseldorf", "düsseldorf">>, <<"DÜSSELDORF", "düsseldorf">>,
     <<"Dusseldorf", "dusseldorf">>, <<"DUSSELDORF", "dusseldorf">>,
     <<"Atlantis", "atlantis">>, <<"ATLANTIS", "atlantis">>}

Lower(s) ==
    IF \E p \in LowerPairs : p[1] = s
    THEN (CHOOSE p \in LowerPairs : p[1] = s)[2]
    ELSE s

\* str.strip() on the strings of the model
Strip(s) == IF s = " berlin " THEN "berlin" ELSE IF s = " Berlin " THEN "Berlin" ELSE s

\* str(city_name): a missing cell (float nan) prints as 'nan'
Str(s) == IF s = NoText THEN "nan" ELSE s

\* city_mapping of DataIntegrator._standardize_city_key
IntegratorMapping ==
    {<<"berlin", "berlin">>, <<"munich", "munich">>, <<"münchen", "munich">>,
     <<"hamburg", "hamburg">>, <<"cologne", "cologne">>, <<"köln", "cologne">>,
     <<"frankfurt", "frankfurt">>, <<"frankfurt am main", "frankfurt">>}

\* city_mapping of helpers.standardize_city_name
HelpersMapping ==
    {<<"münchen", "munich">>, <<"munich", "munich">>, <<"köln", "cologne">>,
     <<"cologne", "cologne">>, <<"frankfurt am main", "frankfurt">>,
     <<"frankfurt", "frankfurt">>, <<"berlin", "berlin">>, <<"hamburg", "hamburg">>}

\* dict.get(key, default)
DictGet(mapping, key, default) ==
    IF \E p \in mapping : p[1] = key
    THEN (CHOOSE p \in mapping : p[1] = key)[2]
    ELSE default

\* DataIntegrator._standardize_city_key
_standardize_city_key(name) ==
    LET city_lower == Strip(Lower(Str(name)))
    IN  DictGet(IntegratorMapping, city_lower, city_lower)

\* helpers.standardize_city_name
standardize_city_name(name) ==
    LET city_lower == Strip(Lower(name))
    IN  DictGet(HelpersMapping, city_lower, city_lower)

\* the city names given to the resolvers: every registry name and variation in
\* the registry's, lower and upper case, a name with blanks around it and names
\* of no registry city
CityNames ==
    UNION {RegistryNames(k) : k \in RegistryKeys}
    \cup {Lower(n) : n \in UNION {RegistryNames(k) : k \in RegistryKeys}}
    \cup {"FRANKFURT AM MAIN", " Berlin ", "Atlantis", "ATLANTIS", "atlantis"}

InitResolve ==
    /\ pc = "resolve"
    /\ city_name \in CityNames
    /\ resolved = <<>>
    /\ CleanIdle /\ RunIdle /\ MergeIdle /\ FeatIdle /\ SaveIdle
    /\ FamilyIdle /\ AlignIdle /\ CallIdle

StandardizeCityKey ==
    /\ pc = "resolve"
    /\ "integrator" \notin DOMAIN resolved
    /\ resolved' = resolved @@ ("integrator" :> _standardize_city_key(city_name))
    /\ UNCHANGED <<pc, city_name>> /\ UNCHANGED <<cleanVars, runVars, mergeVars, featVars,
                                                  saveVars, familyVars, alignVars, callVars>>

StandardizeCityName ==
    /\ pc = "resolve"
    /\ "helpers" \notin DOMAIN resolved
    /\ resolved' = resolved @@ ("helpers" :> standardize_city_name(city_name))
    /\ UNCHANGED <<pc, city_name>> /\ UNCHANGED <<cleanVars, runVars, mergeVars, featVars,
                                                  saveVars, familyVars, alignVars, callVars>>

NextResolve == StandardizeCityKey \/ StandardizeCityName

SpecResolve == InitResolve /\ [][NextResolve]_vars

\* the registry city a name belongs to: the name equals one of the city's
\* listed names up to letter case
RegistryCityOf(n) ==
    {k \in RegistryKeys : \E m \in RegistryNames(k) : Lower(m) = Lower(n)}

\* C9: every name and name variant the registry lists for a city, in any
\* letter case, resolves to that city's canonical city_key, and both resolvers
\* return the same key for the same input.
C9_RegistryNamesResolve ==
    /\ \A r \in DOMAIN resolved : \A k \in RegistryCityOf(city_name) : resolved[r] = k
    /\ DOMAIN resolved = {"integrator", "helpers"} =>
           resolved["integrator"] = resolved["helpers"]

\* C10: a city name that matches no registry entry is never given a city_key:
\* the resolver leaves it unresolved instead of returning a key that is not a
\* key of the registry.
C10_NoKeyOutsideRegistry ==
    \A r \in DOMAIN resolved :
        RegistryCityOf(Strip(city_name)) = {} =>
            resolved[r] = NoText

-----------------------------------------------------------------------------
(* DataIntegrator (scripts/integrate/data_integrator.py)                   *)

\* datetimes of the integrator's tables are minutes since the first hour
MinutesPerHour == 60

\* Series.dt.floor('H'); NaT stays NaT
FloorHour(d) == IF d = NaN THEN NaN ELSE d - (d % MinutesPerHour)

\* a call that returned df, or that raised ValueError about data_type
Returned(df) == [raised |-> NoText, df |-> df]

Raised(data_type) == [raised |-> data_type, df |-> Unset]

\* DataIntegrator.prepare_for_merge
prepare_for_merge(df, data_type) ==
    IF "datetime" \notin df.cols /\ "date" \notin df.cols THEN Raised(data_type)
    ELSE IF "city" \notin df.cols /\ "city_key" \notin df.cols THEN Raised(data_type)
    ELSE LET d1 == IF "datetime" \notin df.cols
                   THEN SetCol(df, "datetime", LAMBDA i : df.rows[i]["date"])
                   ELSE df
             d2 == IF "city" \in d1.cols
                   THEN SetCol(d1, "city_key",
                               LAMBDA i : _standardize_city_key(d1.rows[i]["city"]))
                   ELSE d1
         IN  Returned(SetCol(d2, "datetime_hour",
                             LAMBDA i : FloorHour(d2.rows[i]["datetime"])))

\* the columns agg_dict names
AggCols == {"no2", "pm25", "pm10", "o3", "co"}

RECURSIVE SumOf(_, _)
SumOf(rows, c) == IF rows = <<>> THEN 0 ELSE Head(rows)[c] + SumOf(Tail(rows), c)

\* 'mean' of a group: NaN cells are skipped, an all-NaN group gives NaN (the
\* values of the model have integer means)
MeanOf(rows, c) ==
    LET vals == FilterRows(rows, LAMBDA r : r[c] # NaN)
    IN  IF vals = <<>> THEN NaN ELSE SumOf(vals, c) \div Len(vals)

\* df.groupby(['city_key', 'datetime_hour']).agg(agg_dict).reset_index(): one
\* row per key in key order, rows with a null key cell left out
AggregateStations(df) ==
    LET HasKey(r) == r["city_key"] # NoText /\ r["datetime_hour"] # NaN
        keyed == FilterRows(df.rows, HasKey)
        first == FilterRows(
                     [i \in 1..Len(keyed) |-> [row |-> keyed[i], pos |-> i]],
                     LAMBDA e : \A j \in 1..(e.pos - 1) :
                         \/ keyed[j]["city_key"] # e.row["city_key"]
                         \/ keyed[j]["datetime_hour"] # e.row["datetime_hour"])
        cols  == {"city_key", "datetime_hour"} \cup (AggCols \cap df.cols)
        Group(r) == FilterRows(keyed, LAMBDA x : /\ x["city_key"] = r["city_key"]
                                                 /\ x["datetime_hour"] = r["datetime_hour"])
        Agg(e) == [c \in cols |-> IF c \in AggCols THEN MeanOf(Group(e.row), c)
                                  ELSE e.row[c]]
    IN  Table(cols, StableSort(MapRows(first, Agg), HourKeyLeq))

\* DataIntegrator.merge_datasets
merge_datasets(weather_df, air_quality_df, traffic_df, merge_strategy) ==
    LET w == prepare_for_merge(weather_df, "weather")
        a == prepare_for_merge(air_quality_df, "air_quality")
        t == prepare_for_merge(traffic_df, "traffic")
        aq == IF "station_code" \in a.df.cols THEN AggregateStations(a.df) ELSE a.df
        m1 == Merge(w.df, aq, "datetime_hour", merge_strategy, "_aq")
        m2 == Merge(m1, t.df, "datetime_hour", merge_strategy, "_traffic")
        m3 == DropCols(m2, {"city_traffic", "city_aq"})
        m4 == DropCols(SetCol(m3, "datetime", LAMBDA i : m3.rows[i]["datetime_hour"]),
                       {"datetime_hour"})
    IN  IF w.raised # NoText THEN w
        ELSE IF a.raised # NoText THEN a
        ELSE IF t.raised # NoText THEN t
        ELSE Returned(SortByKey(m4))

-----------------------------------------------------------------------------
(* SpecMerge: DataIntegrator.merge_datasets on three cleaned tables        *)

\* the longest weather or air-quality table of SpecMerge; traffic tables are
\* one row shorter
MaxMergeRows == 2

\* (city, city_key, datetime) as the collectors write them: city is the
\* registry name of the city, city_key its registry key
WeatherStamps ==
    {<<"Berlin", "berlin", 0>>, <<"Berlin", "berlin", 60>>,
     <<"Düsseldorf", "dusseldorf", 0>>}

AirStamps ==
    {<<"Berlin", "berlin", 0, 12>>, <<"Berlin", "berlin", 0, 24>>,
     <<"Berlin", "berlin", 30, 24>>, <<"Düsseldorf", "dusseldorf", 0, 12>>}

TrafficStamps == {<<"Berlin", "berlin", 0>>, <<"Düsseldorf", "dusseldorf", 0>>}

MergeWeatherRows ==
    {[city |-> k[1], city_key |-> k[2], datetime |-> k[3], temperature |-> 15] :
        k \in WeatherStamps}

MergeAirRows ==
    {[city |-> k[1], city_key |-> k[2], datetime |-> k[3], no2 |-> k[4],
      station_code |-> IF k[4] = 12 THEN "DEBE010" ELSE "DEBE065"] : k \in AirStamps}

MergeTrafficRows ==
    {[city |-> k[1], city_key |-> k[2], datetime |-> k[3], traffic_index |-> 40] :
        k \in TrafficStamps}

TablesOf(rowset, n) ==
    {Table(DOMAIN (CHOOSE r \in rowset : TRUE), rows) : rows \in SeqsUpTo(rowset, n)}

\* the table with column old named new
RenameCol(t, old, new) ==
    Table((t.cols \ {old}) \cup {new},
          [i \in Idx(t) |-> [c \in (t.cols \ {old}) \cup {new} |->
              IF c = new THEN t.rows[i][old] ELSE t.rows[i][c]]])

\* air-quality files of the EEA path carry station_code, those of the UBA
\* collector station_name (and station_id), the others no station column
MergeAirTables ==
    LET withCode == TablesOf(MergeAirRows, MaxMergeRows)
    IN  withCode \cup {DropCols(t, {"station_code"}) : t \in withCode}
                 \cup {RenameCol(t, "station_code", "station_name") : t \in withCode}

MergeStrategies == {"inner", "outer"}

\* pd.DataFrame(): what integrate_data passes for a transformed file that does
\* not exist
EmptyFrame == Table({}, <<>>)

\* the arguments of a direct call, and those main.integrate_data passes: the
\* transformed files that exist, an EmptyFrame for each one that does not, and
\* merge_strategy='outer'
MergeInputs ==
    [weather        : TablesOf(MergeWeatherRows, MaxMergeRows),
     air_quality    : MergeAirTables,
     traffic        : TablesOf(MergeTrafficRows, MaxMergeRows - 1),
     merge_strategy : MergeStrategies]
    \cup
    {in \in [weather        : TablesOf(MergeWeatherRows, MaxMergeRows) \cup {EmptyFrame},
             air_quality    : MergeAirTables \cup {EmptyFrame},
             traffic        : TablesOf(MergeTrafficRows, MaxMergeRows - 1) \cup {EmptyFrame},
             merge_strategy : {"outer"}] :
        EmptyFrame \in {in.weather, in.air_quality, in.traffic}}

InitMerge ==
    /\ pc = "merge"
    /\ inputs \in MergeInputs
    /\ merged = <<>>
    /\ CleanIdle /\ RunIdle /\ ResolveIdle /\ FeatIdle /\ SaveIdle
    /\ FamilyIdle /\ AlignIdle /\ CallIdle

MergeDatasets ==
    /\ pc = "merge"
    /\ merged' = merge_datasets(inputs.weather, inputs.air_quality, inputs.traffic,
                                inputs.merge_strategy)
    /\ pc' = "merged"
    /\ UNCHANGED inputs /\ UNCHANGED <<cleanVars, runVars, resolveVars, featVars,
                                       saveVars, familyVars, alignVars, callVars>>

\* main.integrate_data: loads the transformed files, returns early when all
\* three tables are empty, otherwise merges with the outer strategy; a
\* ValueError of merge_datasets is caught nowhere (main.main has no handler) and
\* ends the run before anything is saved
IntegrateData ==
    /\ pc = "merge"
    /\ inputs.merge_strategy = "outer"
    /\ IF Len0(inputs.weather) = 0 /\ Len0(inputs.air_quality) = 0
          /\ Len0(inputs.traffic) = 0
       THEN pc' = "nodata" /\ UNCHANGED merged
       ELSE LET m == merge_datasets(inputs.weather, inputs.air_quality,
                                    inputs.traffic, "outer")
            IN  /\ merged' = m
                /\ pc' = IF m.raised = NoText THEN "integrated" ELSE "aborted"
    /\ UNCHANGED inputs /\ UNCHANGED <<cleanVars, runVars, resolveVars, featVars,
                                       saveVars, familyVars, alignVars, callVars>>

NextMerge == MergeDatasets \/ IntegrateData

SpecMerge == InitMerge /\ [][NextMerge]_vars

\* the (city_key, hour) keys of an input table
InputKeys(t) == {<<t.rows[i]["city_key"], FloorHour(t.rows[i]["datetime"])>> : i \in Idx(t)}

\* the (city_key, hour) keys of the merged table
MergedKeys == {<<merged.df.rows[i]["city_key"], merged.df.rows[i]["datetime"]>> :
                  i \in Idx(merged.df)}

\* C1: with the inner strategy the city_key values of the merged table are a
\* subset of the intersection of the three inputs' city_key sets, and the
\* merged table has a row for (city_key, hour) exactly if the weather, the
\* air-quality and the traffic input each have a row for that (city_key, hour).
C1_InnerMerge ==
    (pc = "merged" /\ inputs.merge_strategy = "inner") =>
        /\ merged.raised = NoText
        /\ Cities(merged.df) \subseteq
               (Cities(inputs.weather) \cap Cities(inputs.air_quality)
                \cap Cities(inputs.traffic))
        /\ MergedKeys = (InputKeys(inputs.weather) \cap InputKeys(inputs.air_quality)
                         \cap InputKeys(inputs.traffic))

\* the sources integrate_data found no usable table for: no datetime and no
\* date column (a file that does not exist is such a table)
Unusable ==
    {s \in {"weather", "air_quality", "traffic"} :
        "datetime" \notin inputs[s].cols /\ "date" \notin inputs[s].cols}

\* no two rows of the table have the same (city_key, hour)
UniqueHours(t) ==
    \A i \in Idx(t), j \in Idx(t) :
        i # j => \/ t.rows[i]["city_key"] # t.rows[j]["city_key"]
                 \/ FloorHour(t.rows[i]["datetime"]) # FloorHour(t.rows[j]["datetime"])

StationCols == {"station_code", "station_id", "station_name"}

\* no row is in the table twice
DistinctRows(t) == \A i \in Idx(t), j \in Idx(t) : i # j => t.rows[i] # t.rows[j]

\* C20: when the weather and the traffic table have one row per (city_key,
\* hour), and the air-quality table has too or carries a station identifier
\* column and no row twice, the merged table has at most one row per
\* (city_key, hour).
C20_OneRowPerCityHour ==
    (/\ pc \in {"merged", "integrated"}
     /\ merged.raised = NoText
     /\ UniqueHours(inputs.weather) /\ UniqueHours(inputs.traffic)
     /\ \/ UniqueHours(inputs.air_quality)
        \/ /\ inputs.air_quality.cols \cap StationCols # {}
           /\ DistinctRows(inputs.air_quality)) =>
        \A i \in Idx(merged.df), j \in Idx(merged.df) :
            i # j => ~SameKey(merged.df.rows[i], merged.df.rows[j])

\* C15: when one or two of the three sources have neither a datetime nor a
\* date column (or do not exist), the integration run does not abort: it
\* returns a merged table, and every (city_key, hour) of the other sources is
\* in it.
C15_ProblemConfined ==
    (pc \in {"integrated", "aborted"} /\ Unusable # {}
        /\ Unusable # {"weather", "air_quality", "traffic"}) =>
        /\ pc = "integrated"
        /\ merged.raised = NoText
        /\ \A s \in {"weather", "air_quality", "traffic"} \ Unusable :
               InputKeys(inputs[s]) \subseteq MergedKeys

-----------------------------------------------------------------------------
(* DataTransformer.create_rolling_averages and                             *)
(* FeatureEngineer.create_lag_features; datetimes are hours                *)

\* a window of '<window>D' covers window days
HoursPerDay == 24

TimeLeq(r1, r2) == TimeRank(r1["datetime"]) <= TimeRank(r2["datetime"])

\* the positions of the sequence whose row satisfies Test, ascending
PositionsOf(rows, Test(_)) ==
    SelectSeq([i \in 1..Len(rows) |-> i], LAMBDA i : Test(rows[i]))

RECURSIVE SumAt(_, _, _)
SumAt(rows, S, c) ==
    IF S = {} THEN 0
    ELSE LET j == CHOOSE x \in S : TRUE IN rows[j][c] + SumAt(rows, S \ {j}, c)

\* mean of the non-null values of column c at the positions S; NaN when there
\* is none (min_periods=1); the values of the model have integer means
MeanAt(rows, S, c) ==
    LET obs == {j \in S : rows[j][c] # NaN}
    IN  IF obs = {} THEN NaN ELSE SumAt(rows, obs, c) \div Cardinality(obs)

\* rolling(window='<w>D', min_periods=1).mean() at position i of a series made
\* of the positions in members: the rows up to i with datetime in (t - w, t]
RollingMean(rows, i, c, w, members) ==
    MeanAt(rows,
           {j \in members : j <= i /\ rows[j]["datetime"] > rows[i]["datetime"] - w * HoursPerDay},
           c)

\* the positions of the groups of groupby('city'), group after group in the
\* order of the city values; rows with a null city are in no group
RECURSIVE GroupedPositions(_, _)
GroupedPositions(rows, n) ==
    IF n > Len(CityOrder) THEN <<>>
    ELSE (IF CityOrder[n] = NoText THEN <<>>
          ELSE PositionsOf(rows, LAMBDA r : r["city"] = CityOrder[n]))
         \o GroupedPositions(rows, n + 1)

RollingName(c, w) == c \o "_rolling_" \o ToString(w) \o "d"

\* DataTransformer.create_rolling_averages(df, columns, windows)
create_rolling_averages(df, columns, windows) ==
    IF "datetime" \notin df.cols THEN Raised("datetime")
    ELSE
    \* df.sort_values('datetime').set_index('datetime'); rows with equal
    \* datetime keep their order in frames this short
    LET rows    == StableSort(df.rows, TimeLeq)
        pos     == 1..Len(rows)
        made    == {<<c, w>> : c \in columns \cap df.cols, w \in windows}
        series  == GroupedPositions(rows, 1)
        Label(k) == rows[series[k]]["datetime"]
        GroupAt(i) == {j \in pos : rows[j]["city"] = rows[i]["city"]}
        \* df[col_name] = series: by position when the two indexes are equal,
        \* by label otherwise, which pandas refuses for repeated labels
        sameIndex == /\ Len(series) = Len(rows)
                     /\ \A k \in pos : Label(k) = rows[k]["datetime"]
        repeated  == \E k \in 1..Len(series), m \in 1..Len(series) :
                         k # m /\ Label(k) = Label(m)
        Grouped(i, c, w) ==
            IF sameIndex THEN RollingMean(rows, series[i], c, w, GroupAt(series[i]))
            ELSE IF \E k \in 1..Len(series) : Label(k) = rows[i]["datetime"]
            THEN LET k == CHOOSE k \in 1..Len(series) : Label(k) = rows[i]["datetime"]
                 IN  RollingMean(rows, series[k], c, w, GroupAt(series[k]))
            ELSE NaN
        Value(i, c, w) ==
            IF "city" \in df.cols THEN Grouped(i, c, w)
            ELSE RollingMean(rows, i, c, w, pos)
        newcols == {RollingName(x[1], x[2]) : x \in made}
        Made(k) == CHOOSE x \in made : RollingName(x[1], x[2]) = k
        out == Table(df.cols \cup newcols,
                     [i \in pos |-> [k \in df.cols \cup newcols |->
                         IF k \in newcols THEN Value(i, Made(k)[1], Made(k)[2])
                         ELSE rows[i][k]]])
    IN  IF made # {} /\ "city" \in df.cols /\ ~sameIndex /\ repeated
        THEN Raised("reindex")
        ELSE Returned(out)

LagName(c, lag) == c \o "_lag_" \o ToString(lag) \o "h"

\* df.groupby('city_key')[c].shift(lag) at position i: the value lag rows
\* earlier among the rows of the same city_key; rows with a null city_key are
\* in no group
ShiftAt(rows, i, c, lag) ==
    LET group == PositionsOf(rows, LAMBDA r : r["city_key"] = rows[i]["city_key"])
        at    == CHOOSE n \in 1..Len(group) : group[n] = i
    IN  IF rows[i]["city_key"] = NoText \/ at <= lag THEN NaN
        ELSE rows[group[at - lag]][c]

\* FeatureEngineer.create_lag_features(df, columns, lags)
create_lag_features(df, columns, lags) ==
    IF "datetime" \notin df.cols \/ "city_key" \notin df.cols THEN Raised("lag")
    ELSE
    LET rows    == StableSort(df.rows, KeyLeq)
        made    == {<<c, l>> : c \in columns \cap df.cols, l \in lags}
        newcols == {LagName(x[1], x[2]) : x \in made}
        Made(k) == CHOOSE x \in made : LagName(x[1], x[2]) = k
    IN  Returned(Table(df.cols \cup newcols,
                       [i \in 1..Len(rows) |-> [k \in df.cols \cup newcols |->
                           IF k \in newcols THEN ShiftAt(rows, i, Made(k)[1], Made(k)[2])
                           ELSE rows[i][k]]]))

-----------------------------------------------------------------------------
(* SpecFeat: the two feature functions on a merged table                   *)

\* the longest merged table of SpecFeat
MaxFeatRows == 3

\* (city, city_key, datetime, no2) of the rows of a merged table: weather's
\* city name, null in a row of an outer merge that has no weather part
FeatStamps ==
    {<<"Berlin", "berlin", 0, 60>>, <<"Berlin", "berlin", 0, 0>>,
     <<"Berlin", "berlin", 12, 0>>, <<"Berlin", "berlin", 24, 60>>,
     <<"Berlin", "berlin", 36, NaN>>, <<"Munich", "munich", 0, 0>>,
     <<"Munich", "munich", 12, 60>>, <<NoText, "munich", 24, 60>>}

FeatRows ==
    {[city |-> k[1], city_key |-> k[2], datetime |-> k[3], no2 |-> k[4]] : k \in FeatStamps}

FeatTables ==
    LET withCity == TablesOf(FeatRows, MaxFeatRows)
    IN  withCity \cup {DropCols(t, {"city"}) : t \in withCity}

\* the columns asked for (pm25 is not in the table and is skipped), the
\* windows in days and the lags in rows
FeatColumns == {"no2", "pm25"}

FeatWindows == {1, 7}

FeatLags == {1, 2}

InitFeat ==
    /\ pc = "frame"
    /\ frame \in FeatTables
    /\ rolled = <<>> /\ lagged = <<>> /\ shuffled = <<>>
    /\ CleanIdle /\ RunIdle /\ ResolveIdle /\ MergeIdle /\ SaveIdle
    /\ FamilyIdle /\ AlignIdle /\ CallIdle

CreateRollingAverages ==
    /\ pc = "frame"
    /\ rolled' = create_rolling_averages(frame, FeatColumns, FeatWindows)
    /\ pc' = "rolled"
    /\ UNCHANGED <<frame, lagged, shuffled>>
    /\ UNCHANGED <<cleanVars, runVars, resolveVars, mergeVars,
                   saveVars, familyVars, alignVars, callVars>>

CreateLagFeatures ==
    /\ pc = "frame"
    /\ lagged' = create_lag_features(frame, FeatColumns, FeatLags)
    /\ pc' = "lagged"
    /\ UNCHANGED <<frame, rolled, shuffled>>
    /\ UNCHANGED <<cleanVars, runVars, resolveVars, mergeVars,
                   saveVars, familyVars, alignVars, callVars>>

\* the same call on the same rows in another order
CreateLagFeaturesReordered ==
    /\ pc = "lagged"
    /\ \E i \in Idx(frame), j \in Idx(frame) :
          /\ i < j
          /\ shuffled' = create_lag_features(Swap(frame, i, j), FeatColumns, FeatLags)
    /\ pc' = "shuffled"
    /\ UNCHANGED <<frame, rolled, lagged>>
    /\ UNCHANGED <<cleanVars, runVars, resolveVars, mergeVars,
                   saveVars, familyVars, alignVars, callVars>>

NextFeat == CreateRollingAverages \/ CreateLagFeatures \/ CreateLagFeaturesReordered

SpecFeat == InitFeat /\ [][NextFeat]_vars

\* the rows of frame a feature of row o may depend on: the rows of o's
\* city_key up to o's datetime (rolling), or before it and o itself (lag)
RollingPast(o) ==
    Table(frame.cols,
          FilterRows(frame.rows, LAMBDA r : /\ r["city_key"] = o["city_key"]
                                            /\ r["datetime"] <= o["datetime"]))

LagPast(o) ==
    Table(frame.cols,
          FilterRows(frame.rows,
                     LAMBDA r : /\ r["city_key"] = o["city_key"]
                                /\ \/ r["datetime"] < o["datetime"]
                                   \/ \A c \in frame.cols : r[c] = o[c]))

\* no two rows of frame have the same (city_key, datetime)
UniqueKeys ==
    \A i \in Idx(frame), j \in Idx(frame) :
        i # j => ~SameKey(frame.rows[i], frame.rows[j])

\* C6: no future or cross-city leakage, already for tables with one row per
\* (city_key, datetime): every row of the result, with its rolling averages,
\* is what the function returns for the rows of the same city_key with
\* datetime <= the row's datetime alone, and with its lag features what the
\* function returns for the row and the rows of the same city_key with
\* datetime < the row's datetime alone; whether or not the table has a city
\* column or null city cells.
C6_NoLeakage ==
    /\ (pc = "rolled" /\ rolled.raised = NoText /\ UniqueKeys) =>
           \A i \in Idx(rolled.df) :
               LET alone == create_rolling_averages(RollingPast(rolled.df.rows[i]),
                                                    FeatColumns, FeatWindows)
               IN  /\ alone.raised = NoText
                   /\ \E j \in Idx(alone.df) : alone.df.rows[j] = rolled.df.rows[i]
    /\ (pc = "lagged" /\ UniqueKeys) =>
           \A i \in Idx(lagged.df) :
               LET alone == create_lag_features(LagPast(lagged.df.rows[i]),
                                                FeatColumns, FeatLags)
               IN  \E j \in Idx(alone.df) : alone.df.rows[j] = lagged.df.rows[i]

\* the rows of the table with the city_key, in table order
CityRows(t, k) == FilterRows(t.rows, LAMBDA r : r["city_key"] = k)

\* C7: in the result the rows of a city are in ascending datetime order, the
\* lag-L feature of the row at position i of the city is the column's value at
\* position i - L of the city and null for the city's first L rows, and the
\* same rows given in another order produce the same result.
C7_LagFeature ==
    /\ pc \in {"lagged", "shuffled"} =>
           /\ lagged.raised = NoText
           /\ \A k \in Cities(lagged.df), L \in FeatLags :
                  LET seq == CityRows(lagged.df, k)
                  IN  \A i \in 1..Len(seq) :
                          /\ i > 1 => TimeLeq(seq[i - 1], seq[i])
                          /\ seq[i][LagName("no2", L)] =
                                 (IF i <= L THEN NaN ELSE seq[i - L]["no2"])
    /\ pc = "shuffled" => shuffled = lagged

\* C8: for a table with one row per (city_key, datetime),
\* create_rolling_averages returns a table, and in it the W-day rolling
\* average of a row is the mean of the column's values over the rows of the
\* same city_key with datetime in the W days ending at and including the
\* row's datetime; one observation is enough, so it is not null where the
\* row's own value is not null.
C8_RollingAverage ==
    (pc = "rolled" /\ UniqueKeys) =>
        /\ rolled.raised = NoText
        /\ \A i \in Idx(rolled.df), w \in FeatWindows :
               LET o == rolled.df.rows[i]
                   S == {j \in Idx(frame) :
                            /\ frame.rows[j]["city_key"] = o["city_key"]
                            /\ frame.rows[j]["datetime"] <= o["datetime"]
                            /\ frame.rows[j]["datetime"] > o["datetime"] - w * HoursPerDay}
               IN  /\ o[RollingName("no2", w)] = MeanAt(frame.rows, S, "no2")
                   /\ o["no2"] # NaN => o[RollingName("no2", w)] # NaN

-----------------------------------------------------------------------------
(* SpecAirFill: clean_air_quality on raw tables with gaps in no2           *)

\* the longest raw table of SpecAirFill
MaxFillRows == 3

\* (city_key, datetime, no2) of the raw rows; each city has its own levels
FillStamps ==
    {<<"berlin", 1, 20>>, <<"berlin", 1, NaN>>, <<"berlin", 2, 30>>,
     <<"berlin", 2, NaN>>, <<"berlin", 3, 600>>, <<"berlin", 3, NaN>>,
     <<"munich", 1, 40>>, <<"munich", 1, NaN>>, <<"munich", 2, 50>>,
     <<"munich", 2, NaN>>}

FillRows == {Override(AirBase(<<k[1], k[2]>>), "no2", k[3]) : k \in FillStamps}

InitAirFill ==
    /\ pc = "loaded"
    /\ source = "air_quality"
    /\ raw \in {Table(RawCols("air_quality"), rows) : rows \in SeqsUpTo(FillRows, MaxFillRows)}
    /\ cleaned = NoResult
    /\ recleaned = NoResult
    /\ RunIdle /\ ResolveIdle /\ MergeIdle /\ FeatIdle /\ SaveIdle
    /\ FamilyIdle /\ AlignIdle /\ CallIdle

NextAirFill == CleanAirQuality

SpecAirFill == InitAirFill /\ [][NextAirFill]_vars

\* the raw rows of row i's city that have a value in column c
SameCityValues(i, c) ==
    {j \in Idx(raw) : /\ raw.rows[j]["city_key"] = raw.rows[i]["city_key"]
                      /\ raw.rows[j][c] # NaN}

\* what the cleaned table must hold for a cell that is missing in raw row i:
\* the (range-validated) value of the nearest preceding raw row of the same
\* city that has one, else of the nearest following one, else 0
FilledWithinCity(i, c) ==
    LET before == {j \in SameCityValues(i, c) : j < i}
        after  == {j \in SameCityValues(i, c) : j > i}
    IN  IF before # {}
        THEN ClipValue(raw.rows[CHOOSE j \in before : \A k \in before : k <= j][c],
                       PollutantMin, PollutantMax)
        ELSE IF after # {}
        THEN ClipValue(raw.rows[CHOOSE j \in after : \A k \in after : j <= k][c],
                       PollutantMin, PollutantMax)
        ELSE 0

\* raw row i is the first with its (city_key, datetime), the one cleaning keeps
FirstOfKey(i) == \A j \in 1..(i - 1) : ~SameKey(raw.rows[j], raw.rows[i])

\* C11: after clean_air_quality every pollutant cell that was missing in a
\* kept raw row holds the value of the nearest preceding, else the nearest
\* following, raw row of the same city_key that has one, and 0 when the city
\* has none; it is never taken from a row of another city.
C11_FillWithinCity ==
    pc = "cleaned" =>
        \A i \in Idx(raw), n \in 1..Len(PollutantCols) :
            LET c == PollutantCols[n]
            IN  (c \in raw.cols /\ raw.rows[i][c] = NaN /\ FirstOfKey(i)) =>
                    \E k \in Idx(cleaned.df) :
                        /\ SameKey(cleaned.df.rows[k], raw.rows[i])
                        /\ cleaned.df.rows[k][c] = FilledWithinCity(i, c)

\* a gap in a city with no value at all, after a row of another city that has
\* one, was cleaned; and a gap between two values of its own city was cleaned
C11_Witness ==
    /\ pc = "cleaned"
    /\ \E i \in Idx(raw), j \in Idx(raw) :
          /\ j < i /\ FirstOfKey(i)
          /\ raw.rows[i]["no2"] = NaN /\ SameCityValues(i, "no2") = {}
          /\ raw.rows[j]["no2"] # NaN
          /\ \E k \in Idx(cleaned.df) : /\ SameKey(cleaned.df.rows[k], raw.rows[i])
                                        /\ cleaned.df.rows[k]["no2"] = 0

-----------------------------------------------------------------------------
(* Claims on the range validation (SpecClean)                              *)

\* the raw table has no empty cell and no repeated key, so that cleaning
\* changes its cells by range validation only
PlainRaw ==
    /\ CountNulls(raw) = 0
    /\ \A i \in Idx(raw) : FirstOfKey(i)

\* the cleaned row of raw row i
CleanedRowOf(i) ==
    cleaned.df.rows[CHOOSE k \in Idx(cleaned.df) : SameKey(cleaned.df.rows[k], raw.rows[i])]

\* C13: range validation clamps temperature to the nearest bound of the
\* declared range [-30, 50] and changes nothing else: a value above 50 becomes
\* 50, a value below -30 becomes -30, a value inside the range is unchanged,
\* and no row is dropped.
C13_ClipToDeclared ==
    (pc = "cleaned" /\ source = "weather" /\ PlainRaw) =>
        /\ Len0(cleaned.df) = Len0(raw)
        /\ \A i \in Idx(raw) :
               /\ \E k \in Idx(cleaned.df) : SameKey(cleaned.df.rows[k], raw.rows[i])
               /\ CleanedRowOf(i)["temperature"] =
                      ClipValue(raw.rows[i]["temperature"], DeclTempMin, DeclTempMax)

\* the raw table has a city_key and a datetime in every row and no key twice
PlainKeys ==
    \A i \in Idx(raw) :
        /\ raw.rows[i]["city_key"] # NoText /\ raw.rows[i]["datetime"] # NaN
        /\ FirstOfKey(i)

\* more than 30% of the rows of the raw table have no value in column c
MostlyMissing(c) == NullsInCol(raw, c) * DropPctDen > DropPctNum * Len0(raw)

\* C21: of a raw weather table, every measurement column with more than 30%
\* of its rows missing is absent from the cleaned table, and every other
\* column is kept with the raw column's median in the cells that were missing.
C21_ThresholdPolicy ==
    (pc = "cleaned" /\ source = "weather" /\ PlainKeys) =>
        \A c \in raw.cols \ {"city_key", "datetime"} :
            IF MostlyMissing(c) THEN c \notin cleaned.df.cols
            ELSE /\ c \in cleaned.df.cols
                 /\ \A i \in Idx(raw) :
                        IsNull(c, raw.rows[i][c]) => CleanedRowOf(i)[c] = Median(raw, c)

\* the columns of the raw table that have no value in any row
EmptyCols == {c \in raw.cols : Len0(raw) > 0 /\ NullsInCol(raw, c) = Len0(raw)}

\* C22: when a column of the raw table is missing in every row, the cleaned
\* table of the source has no null in any column, and that column has been
\* dropped or holds the default 0 in every row (a column without any value
\* has no median).
C22_EmptyColumnDefault ==
    (pc = "cleaned" /\ EmptyCols # {}) =>
        /\ CountNulls(cleaned.df) = 0
        /\ \A c \in EmptyCols :
               \/ c \notin cleaned.df.cols
               \/ \A k \in Idx(cleaned.df) : cleaned.df.rows[k][c] = 0

\* C26: for every source and raw table the metrics are those of the tables:
\* rows_before and rows_after are the lengths of the raw and of the cleaned
\* table, rows_after = rows_before - duplicates_removed and rows_after <=
\* rows_before; no step but the deduplication removes or adds a row.
C26_RowAccounting ==
    pc = "cleaned" =>
        /\ cleaned.metrics.rows_before = Len0(raw)
        /\ cleaned.metrics.rows_after = Len0(cleaned.df)
        /\ cleaned.metrics.rows_after
               = cleaned.metrics.rows_before - cleaned.metrics.duplicates_removed
        /\ cleaned.metrics.rows_after <= cleaned.metrics.rows_before

\* a raw table of the largest size was cleaned and lost a repeated row
C26_Witness ==
    /\ pc = "cleaned"
    /\ Len0(raw) = MaxRows
    /\ cleaned.metrics.rows_after < cleaned.metrics.rows_before

\* the raw rows of the city of raw row i that hold a value in column c
SameCityDonors(i, c) ==
    {j \in Idx(raw) : /\ raw.rows[j]["city_key"] = raw.rows[i]["city_key"]
                      /\ ~IsNull(c, raw.rows[j][c])}

\* C27: in clean_weather and clean_traffic a cell that was missing ends with
\* the cleaned value of a row of the same city_key that had one; when its
\* city has none it holds the column's default (0, or the median of a sparse
\* weather column) or stays missing. It never takes another city's value.
C27_FillWithinCity ==
    (pc = "cleaned" /\ source \in {"weather", "traffic"} /\ PlainKeys) =>
        \A i \in Idx(raw) : \A c \in raw.cols \cap cleaned.df.cols :
            IsNull(c, raw.rows[i][c]) =>
                IF SameCityDonors(i, c) # {}
                THEN \E j \in SameCityDonors(i, c) : CleanedRowOf(i)[c] = CleanedRowOf(j)[c]
                ELSE \/ IsNull(c, CleanedRowOf(i)[c])
                     \/ CleanedRowOf(i)[c] = FillnaZero(c, raw.rows[i][c])
                     \/ CleanedRowOf(i)[c] = Median(raw, c)

\* the columns the cleaning validates against a range, per source
ValidatedCols(s) ==
    IF s = "weather" THEN {"temperature", "humidity", "wind_speed", "precipitation"}
    ELSE IF s = "air_quality" THEN {"no2", "pm10", "o3"}
    ELSE {"traffic_index", "congestion_level", "current_speed", "free_flow_speed"}

\* the cells of the raw table that cleaning changed by clamping
ClampedCells ==
    {x \in Idx(raw) \X (ValidatedCols(source) \cap raw.cols) :
        CleanedRowOf(x[1])[x[2]] # raw.rows[x[1]][x[2]]}

\* C14: no value is clamped silently: the outliers_clipped metric of a source
\* is the number of values its cleaning changed by clamping, over all its
\* range-validated columns, values above an upper bound included.
C14_ClippedAreCounted ==
    (pc = "cleaned" /\ PlainRaw) =>
        cleaned.metrics.outliers_clipped = Cardinality(ClampedCells)

-----------------------------------------------------------------------------
(* SpecSave: the saving phase of DataCleaner.run. save_cleaned_data writes  *)
(* <name>_cleaned.csv and then <name>_cleaned.parquet straight to their     *)
(* final paths, for weather, air_quality and traffic in that order. A run   *)
(* can end between two writes or inside one (an exception of to_csv or      *)
(* to_parquet, a full disk, a kill); nothing in run catches or undoes it.   *)

\* the longest table of SpecSave
MaxSaveRows == 2

\* a table of n rows, as file content: the rows in order
SavedRows(n) == [i \in 1..n |-> [city_key |-> "berlin", datetime |-> i]]

SaveTables == {SavedRows(n) : n \in 0..MaxSaveRows}

\* the files in the order run writes them
SaveOrder ==
    <<[name |-> "weather", format |-> "csv"],
      [name |-> "weather", format |-> "parquet"],
      [name |-> "air_quality", format |-> "csv"],
      [name |-> "air_quality", format |-> "parquet"],
      [name |-> "traffic", format |-> "csv"],
      [name |-> "traffic", format |-> "parquet"]>>

SaveFiles == {SaveOrder[i] : i \in DOMAIN SaveOrder}

\* the silver directory holds the previous run's files: both files of a table
\* with the same rows
InitSave ==
    /\ pc = "saving"
    /\ \E old \in [Sources -> SaveTables] :
          disk = [f \in SaveFiles |-> old[f.name]]
    /\ disk_before = disk
    /\ \E new \in [Sources -> SaveTables] : saving = [tables |-> new, next |-> 1]
    /\ CleanIdle /\ RunIdle /\ ResolveIdle /\ MergeIdle /\ FeatIdle
    /\ FamilyIdle /\ AlignIdle /\ CallIdle

\* df.to_csv(csv_path) or df.to_parquet(parquet_path): the next file is
\* replaced by the new table
WriteFile ==
    /\ pc = "saving"
    /\ saving.next <= Len(SaveOrder)
    /\ LET f == SaveOrder[saving.next]
       IN  disk' = [disk EXCEPT ![f] = saving.tables[f.name]]
    /\ saving' = [saving EXCEPT !.next = @ + 1]
    /\ UNCHANGED <<pc, disk_before>>
    /\ UNCHANGED <<cleanVars, runVars, resolveVars, mergeVars,
                   featVars, familyVars, alignVars, callVars>>

\* the third save_cleaned_data returned: print_summary, "CLEANING COMPLETE!"
FinishSave ==
    /\ pc = "saving"
    /\ saving.next > Len(SaveOrder)
    /\ pc' = "saved"
    /\ UNCHANGED saveVars
    /\ UNCHANGED <<cleanVars, runVars, resolveVars, mergeVars,
                   featVars, familyVars, alignVars, callVars>>

\* the run ends between two writes
FailBetweenWrites ==
    /\ pc = "saving"
    /\ saving.next <= Len(SaveOrder)
    /\ pc' = "failed"
    /\ UNCHANGED saveVars
    /\ UNCHANGED <<cleanVars, runVars, resolveVars, mergeVars,
                   featVars, familyVars, alignVars, callVars>>

\* the run ends inside a write: the file was opened for writing at its final
\* path and holds the rows written so far
FailInWrite ==
    /\ pc = "saving"
    /\ saving.next <= Len(SaveOrder)
    /\ LET f == SaveOrder[saving.next]
       IN  \E m \in 0..(Len(saving.tables[f.name]) - 1) :
               disk' = [disk EXCEPT ![f] = SubSeq(saving.tables[f.name], 1, m)]
    /\ pc' = "failed"
    /\ UNCHANGED <<disk_before, saving>>
    /\ UNCHANGED <<cleanVars, runVars, resolveVars, mergeVars,
                   featVars, familyVars, alignVars, callVars>>

NextSave == WriteFile \/ FinishSave \/ FailBetweenWrites \/ FailInWrite

SpecSave == InitSave /\ [][NextSave]_vars

\* both files of the table hold the previous run's rows, or both the new rows
TableOfRun(s, version) ==
    \A f \in SaveFiles : f.name = s => disk[f] = version[f]

NewVersion == [f \in SaveFiles |-> saving.tables[f.name]]

\* C17: after a run that failed while saving, every silver table is entirely
\* the previous run's version or entirely the new one, the three tables are of
\* the same run, and the csv and the parquet file of a table have the same
\* number of rows.
C17_AllOrNothing ==
    pc = "failed" =>
        /\ \A s \in Sources : TableOfRun(s, disk_before) \/ TableOfRun(s, NewVersion)
        /\ \/ \A s \in Sources : TableOfRun(s, disk_before)
           \/ \A s \in Sources : TableOfRun(s, NewVersion)
        /\ \A f \in SaveFiles, g \in SaveFiles :
               f.name = g.name => Len(disk[f]) = Len(disk[g])

-----------------------------------------------------------------------------
(* SpecFamilies: FeatureEngineer.create_all_features and                   *)
(* DataTransformer.create_interaction_terms on merged tables that lack     *)
(* columns. Which families are derived, and whether a call raises, depends *)
(* on the columns of the table alone, so a table is its set of columns     *)
(* here; the cell arithmetic of the families is not modelled.              *)

\* the columns a merged table has or lacks
OptionalCols ==
    {"datetime", "city_key", "temperature", "humidity", "wind_speed", "pressure",
     "temp_max", "temp_min", "no2", "pm25", "pm10", "traffic_index"}

\* a call that returned a table of these columns, or raised about what
ReturnedCols(cols) == [raised |-> NoText, cols |-> cols]

RaisedWith(what, cols) == [raised |-> what, cols |-> cols]

TimeFeatureCols ==
    {"year", "month", "day", "hour", "day_of_week", "day_of_year", "week_of_year",
     "hour_sin", "hour_cos", "day_of_week_sin", "day_of_week_cos", "month_sin",
     "month_cos"}

\* FeatureEngineer.create_time_features: raises ValueError without datetime
create_time_features(cols) ==
    IF "datetime" \notin cols THEN RaisedWith("datetime column required", cols)
    ELSE ReturnedCols(cols \cup TimeFeatureCols)

\* FeatureEngineer.create_weather_features: the pressure change is
\* df.groupby('city_key')[...], a KeyError when the table has no city_key
create_weather_features(cols) ==
    LET heat  == IF {"temperature", "humidity"} \subseteq cols
                 THEN {"heat_index"} ELSE {}
        chill == IF {"temperature", "wind_speed"} \subseteq cols
                 THEN {"wind_chill"} ELSE {}
        range == IF {"temp_max", "temp_min"} \subseteq cols
                 THEN {"temp_range"} ELSE {}
        c1    == cols \cup heat \cup chill \cup range
    IN  IF {"pressure", "datetime"} \subseteq c1
        THEN IF "city_key" \in c1
             THEN ReturnedCols(c1 \cup {"pressure_change", "pressure_change_rate"})
             ELSE RaisedWith("KeyError: 'city_key'", c1)
        ELSE ReturnedCols(c1)

\* FeatureEngineer.create_pollution_features
create_pollution_features(cols) ==
    ReturnedCols(cols
         \cup (IF "pm25" \in cols THEN {"pm25_aqi"} ELSE {})
         \cup (IF "pm10" \in cols THEN {"pm10_aqi"} ELSE {})
         \cup (IF {"no2", "pm25", "pm10", "o3"} \cap cols # {}
               THEN {"pollution_index"} ELSE {})
         \cup (IF {"pm25", "pm10"} \subseteq cols THEN {"pm25_pm10_ratio"} ELSE {}))

\* lag_columns and lags of create_all_features
LagColumns == {"no2", "pm25", "pm10", "o3", "temperature", "traffic_index"}

AllLags == {1, 6, 24}

\* the columns create_lag_features adds, and its ValueError
lag_feature_cols(cols, columns, lags) ==
    IF "datetime" \notin cols \/ "city_key" \notin cols
    THEN RaisedWith("datetime and city_key columns required for lag features", cols)
    ELSE ReturnedCols(cols \cup {LagName(c, l) : c \in columns \cap cols, l \in lags})

\* FeatureEngineer.create_all_features: the four steps in order; an exception
\* of a step ends the call. It returns the table and nothing else, and prints
\* the same lines whatever was skipped.
create_all_features(cols) ==
    LET t == create_time_features(cols)
        w == create_weather_features(t.cols)
        p == create_pollution_features(w.cols)
        l == IF LagColumns \cap p.cols # {}
             THEN lag_feature_cols(p.cols, LagColumns \cap p.cols, AllLags)
             ELSE p
    IN  IF t.raised # NoText
        THEN [result |-> t, printed |-> {"Creating time features..."}]
        ELSE IF w.raised # NoText
        THEN [result |-> w, printed |-> {"Creating time features...",
                                         "Creating weather features..."}]
        ELSE [result  |-> l,
              printed |-> {"Creating time features...", "Creating weather features...",
                           "Creating pollution features...", "Creating lag features..."}
                          \cup (IF l.raised = NoText
                                THEN {"Feature engineering complete."} ELSE {})]

\* DataTransformer.create_interaction_terms
create_interaction_terms(cols) ==
    [result |-> ReturnedCols(cols
         \cup (IF {"temperature", "traffic_index"} \subseteq cols
               THEN {"high_temp_high_traffic"} ELSE {})
         \cup (IF {"wind_speed", "no2"} \subseteq cols
               THEN {"wind_no2_interaction"} ELSE {})
         \cup (IF {"wind_speed", "pm25"} \subseteq cols
               THEN {"wind_pm25_interaction"} ELSE {})
         \cup (IF {"humidity", "temperature"} \subseteq cols
               THEN {"humidity_temp_interaction"} ELSE {})),
     printed |-> {}]

InitFamilies ==
    /\ pc = "columns"
    /\ \E cols \in SUBSET OptionalCols : featured = [input |-> cols, out |-> <<>>]
    /\ CleanIdle /\ RunIdle /\ ResolveIdle /\ MergeIdle /\ FeatIdle
    /\ SaveIdle /\ AlignIdle /\ CallIdle

CreateAllFeatures ==
    /\ pc = "columns"
    /\ featured' = [featured EXCEPT !.out = create_all_features(featured.input)]
    /\ pc' = "all_features"
    /\ UNCHANGED <<cleanVars, runVars, resolveVars, mergeVars,
                   featVars, saveVars, alignVars, callVars>>

CreateInteractionTerms ==
    /\ pc = "columns"
    /\ featured' = [featured EXCEPT !.out = create_interaction_terms(featured.input)]
    /\ pc' = "interaction_terms"
    /\ UNCHANGED <<cleanVars, runVars, resolveVars, mergeVars,
                   featVars, saveVars, alignVars, callVars>>

NextFamilies == CreateAllFeatures \/ CreateInteractionTerms

SpecFamilies == InitFamilies /\ [][NextFamilies]_vars

\* the families of create_all_features: the columns each needs and adds
AllFamilies ==
    {[name |-> "time", needs |-> {"datetime"}, adds |-> TimeFeatureCols],
     [name |-> "heat_index", needs |-> {"temperature", "humidity"},
      adds |-> {"heat_index"}],
     [name |-> "wind_chill", needs |-> {"temperature", "wind_speed"},
      adds |-> {"wind_chill"}],
     [name |-> "temp_range", needs |-> {"temp_max", "temp_min"},
      adds |-> {"temp_range"}],
     [name |-> "pressure_change", needs |-> {"pressure", "datetime", "city_key"},
      adds |-> {"pressure_change", "pressure_change_rate"}],
     [name |-> "pm25_aqi", needs |-> {"pm25"}, adds |-> {"pm25_aqi"}],
     [name |-> "pm10_aqi", needs |-> {"pm10"}, adds |-> {"pm10_aqi"}],
     [name |-> "pm25_pm10_ratio", needs |-> {"pm25", "pm10"},
      adds |-> {"pm25_pm10_ratio"}]}
    \cup {[name |-> "lag " \o c, needs |-> {c, "datetime", "city_key"},
           adds |-> {LagName(c, l) : l \in AllLags}] : c \in LagColumns}

InteractionFamilies ==
    {[name |-> "high_temp_high_traffic", needs |-> {"temperature", "traffic_index"},
      adds |-> {"high_temp_high_traffic"}],
     [name |-> "wind_no2", needs |-> {"wind_speed", "no2"},
      adds |-> {"wind_no2_interaction"}],
     [name |-> "wind_pm25", needs |-> {"wind_speed", "pm25"},
      adds |-> {"wind_pm25_interaction"}],
     [name |-> "humidity_temp", needs |-> {"humidity", "temperature"},
      adds |-> {"humidity_temp_interaction"}]}

\* the call added the families whose columns are there and no column of the
\* others, raised nothing, and printed a line for every family it skipped
SkipsAbsent(families) ==
    /\ featured.out.result.raised = NoText
    /\ \A f \in families :
          IF f.needs \subseteq featured.input
          THEN f.adds \subseteq featured.out.result.cols
          ELSE /\ f.adds \cap featured.out.result.cols = {}
               /\ ("Skipped " \o f.name) \in featured.out.printed

\* C18: for a merged table lacking any columns, create_all_features and
\* create_interaction_terms raise no error, add exactly the families whose
\* required columns (city_key included, for per-city differences and lags)
\* are present, and report every family they skipped.
C18_SkipAbsentFamilies ==
    /\ pc = "all_features" => SkipsAbsent(AllFamilies)
    /\ pc = "interaction_terms" => SkipsAbsent(InteractionFamilies)

-----------------------------------------------------------------------------
(* SpecAlign: DataTransformer.align_temporal_resolution(df, 'hourly') on a *)
(* cleaned table; datetimes are minutes, as in the integrator              *)

\* the longest cleaned table of SpecAlign
MaxAlignRows == 3

\* the first non-null cell of column c among the rows, in their order
\* (Resampler.first)
RECURSIVE FirstNonNull(_, _)
FirstNonNull(rows, c) ==
    IF rows = <<>> THEN NullOf(c)
    ELSE IF ~IsNull(c, Head(rows)[c]) THEN Head(rows)[c]
    ELSE FirstNonNull(Tail(rows), c)

\* df.set_index('datetime').resample('H').first(): one row for every hour from
\* the first to the last hour of the table, whatever the city; its cells are
\* the first non-null cells of the rows of that hour
ResampleFirst(df) ==
    LET hours == {FloorHour(df.rows[i]["datetime"]) : i \in Idx(df)}
        first == CHOOSE h \in hours : \A g \in hours : h <= g
        last  == CHOOSE h \in hours : \A g \in hours : g <= h
        n     == ((last - first) \div MinutesPerHour) + 1
        Bin(h) == SelectSeq(df.rows, LAMBDA r : FloorHour(r["datetime"]) = h)
    IN  IF df.rows = <<>> THEN <<>>
        ELSE [k \in 1..n |->
                 LET h == first + (k - 1) * MinutesPerHour
                 IN  [c \in df.cols |-> IF c = "datetime" THEN h
                                        ELSE FirstNonNull(Bin(h), c)]]

\* df.fillna(method='ffill', limit=1): a null cell takes the cell above it,
\* unless that one was null as well
FfillLimit1(rows, cols) ==
    [k \in 1..Len(rows) |-> [c \in cols |->
        IF IsNull(c, rows[k][c]) /\ k > 1 THEN rows[k - 1][c] ELSE rows[k][c]]]

\* df['date'] = df['datetime'].dt.date: the day number
DateOf(d) == d \div (MinutesPerHour * HoursPerDay)

\* DataTransformer.align_temporal_resolution(df, resolution='hourly')
align_temporal_resolution(df) ==
    IF "datetime" \notin df.cols /\ "date" \notin df.cols THEN Raised("datetime")
    ELSE
    LET d1   == IF "datetime" \notin df.cols
                THEN SetCol(df, "datetime", LAMBDA i : df.rows[i]["date"])
                ELSE df
        rows == FfillLimit1(ResampleFirst(d1), d1.cols)
        out  == Table(d1.cols, rows)
    IN  Returned(SetCol(out, "date", LAMBDA i : DateOf(out.rows[i]["datetime"])))

\* (city_key, datetime, temperature) of the rows of a cleaned weather table
AlignStamps ==
    {<<"berlin", 0, 11>>, <<"berlin", 0, NaN>>, <<"berlin", 60, 12>>,
     <<"berlin", 180, 13>>, <<"munich", 0, 21>>, <<"munich", 0, NaN>>,
     <<"munich", 60, 22>>, <<"hamburg", 120, 31>>}

AlignRows ==
    {[city_key |-> k[1], datetime |-> k[2], temperature |-> k[3]] : k \in AlignStamps}

\* cleaned tables: sorted by (city_key, datetime), one row per key
AlignTables ==
    {t \in TablesOf(AlignRows, MaxAlignRows) :
        \A i \in 1..(Len0(t) - 1) :
            /\ KeyLeq(t.rows[i], t.rows[i + 1])
            /\ ~SameKey(t.rows[i], t.rows[i + 1])}

InitAlign ==
    /\ pc = "cleaned_table"
    /\ \E t \in AlignTables : hourly = [input |-> t, out |-> <<>>]
    /\ CleanIdle /\ RunIdle /\ ResolveIdle /\ MergeIdle /\ FeatIdle
    /\ SaveIdle /\ FamilyIdle /\ CallIdle

AlignTemporalResolution ==
    /\ pc = "cleaned_table"
    /\ hourly' = [hourly EXCEPT !.out = align_temporal_resolution(hourly.input)]
    /\ pc' = "hourly"
    /\ UNCHANGED <<cleanVars, runVars, resolveVars, mergeVars, featVars, saveVars,
                   familyVars, callVars>>

NextAlign == AlignTemporalResolution

SpecAlign == InitAlign /\ [][NextAlign]_vars

\* the rows of the result for the (city_key, hour) of input row i
HourlyRowsOf(i) ==
    {k \in Idx(hourly.out.df) :
        /\ hourly.out.df.rows[k]["city_key"] = hourly.input.rows[i]["city_key"]
        /\ hourly.out.df.rows[k]["datetime"] = FloorHour(hourly.input.rows[i]["datetime"])}

\* C19: the hourly table has exactly one row for every (city_key, hour) of the
\* cleaned table, and that row carries the temperature the city's row has.
C19_EveryCityKept ==
    pc = "hourly" =>
        /\ hourly.out.raised = NoText
        /\ \A i \in Idx(hourly.input) :
              /\ Cardinality(HourlyRowsOf(i)) = 1
              /\ \A k \in HourlyRowsOf(i) :
                     hourly.input.rows[i]["temperature"] # NaN =>
                         hourly.out.df.rows[k]["temperature"] =
                             hourly.input.rows[i]["temperature"]

-----------------------------------------------------------------------------
(* SpecBuckets: the pd.cut calls of GoldLayerBuilder.add_gold_features and *)
(* DataTransformer.create_categories on one value                          *)

\* pd.cut(x, bins, labels) with the defaults right=True, include_lowest=False:
\* the intervals are (bins[k], bins[k+1]]; a value outside them, the lowest
\* edge included, and a missing value get no category
Cut(x, bins, labels) ==
    IF x = NaN THEN NoText
    ELSE IF \E k \in 1..(Len(bins) - 1) : bins[k] < x /\ x <= bins[k + 1]
    THEN labels[CHOOSE k \in 1..(Len(bins) - 1) : bins[k] < x /\ x <= bins[k + 1]]
    ELSE NoText

\* add_gold_features: air_quality_level of aqi_avg
AqiBins == <<0, 25, 50, 100, 500>>

AqiLabels == <<"good", "moderate", "unhealthy", "hazardous">>

\* add_gold_features: traffic_level of congestion_level; bins=[0, 0.3, 0.6, 1.0],
\* the model's congestion levels are tenths
CongestionBins == <<0, 3, 6, 10>>

CongestionLabels == <<"free_flow", "moderate", "congested">>

\* create_categories: traffic_level of traffic_index
TrafficIndexBins == <<0, 30, 70, 100>>

TrafficIndexLabels == <<"low", "medium", "high">>

BinsOf(column) ==
    IF column = "aqi_avg" THEN AqiBins
    ELSE IF column = "congestion_level" THEN CongestionBins
    ELSE TrafficIndexBins

LabelsOf(column) ==
    IF column = "aqi_avg" THEN AqiLabels
    ELSE IF column = "congestion_level" THEN CongestionLabels
    ELSE TrafficIndexLabels

\* the values of a column: its valid range, one value beyond each end, missing
BucketValues(column) ==
    (BinsOf(column)[1] - 1)..(BinsOf(column)[Len(BinsOf(column))] + 1) \cup {NaN}

InitBuckets ==
    /\ pc = "value"
    /\ \E column \in {"aqi_avg", "congestion_level", "traffic_index"} :
          \E x \in BucketValues(column) :
              bucketed = [column |-> column, value |-> x, level |-> NoText]
    /\ held = <<>> /\ weather_run = <<>> /\ traffic_run = <<>> /\ units = <<>>
    /\ CleanIdle /\ RunIdle /\ ResolveIdle /\ MergeIdle /\ FeatIdle
    /\ SaveIdle /\ FamilyIdle /\ AlignIdle

\* add_gold_features: df['air_quality_level'], df['traffic_level']
GoldLevels ==
    /\ pc = "value"
    /\ bucketed.column \in {"aqi_avg", "congestion_level"}
    /\ bucketed' = [bucketed EXCEPT !.level =
                        Cut(bucketed.value, BinsOf(bucketed.column),
                            LabelsOf(bucketed.column))]
    /\ pc' = "bucketed"
    /\ UNCHANGED <<held, weather_run, traffic_run, units>>
    /\ UNCHANGED <<cleanVars, runVars, resolveVars, mergeVars, featVars, saveVars,
                   familyVars, alignVars>>

\* create_categories: df['traffic_level']
CreateCategories ==
    /\ pc = "value"
    /\ bucketed.column = "traffic_index"
    /\ bucketed' = [bucketed EXCEPT !.level =
                        Cut(bucketed.value, TrafficIndexBins, TrafficIndexLabels)]
    /\ pc' = "bucketed"
    /\ UNCHANGED <<held, weather_run, traffic_run, units>>
    /\ UNCHANGED <<cleanVars, runVars, resolveVars, mergeVars, featVars, saveVars,
                   familyVars, alignVars>>

NextBuckets == GoldLevels \/ CreateCategories

SpecBuckets == InitBuckets /\ [][NextBuckets]_vars

\* the value is in the valid range of its column, both ends included
InValidRange ==
    /\ bucketed.value # NaN
    /\ BinsOf(bucketed.column)[1] <= bucketed.value
    /\ bucketed.value <= BinsOf(bucketed.column)[Len(BinsOf(bucketed.column))]

\* C24: every traffic_index in 0..100, congestion_level in 0..1 and pollutant
\* index in 0..500, the range bounds included, gets one of the categories of
\* its column and never a null category.
C24_BucketsTotal ==
    (pc = "bucketed" /\ InValidRange) =>
        \E k \in DOMAIN LabelsOf(bucketed.column) :
            bucketed.level = LabelsOf(bucketed.column)[k]

-----------------------------------------------------------------------------
(* SpecFrame: what a stage does to the DataFrame objects its caller passed. *)
(* A frame is the element type of each column and the rows. The stages      *)
(* work on the objects they were given wherever the code assigns into df    *)
(* without df.copy().                                                       *)

\* the longest frame of SpecFrame
MaxFrameRows == 2

Frame(dtypes, rows) == [dtypes |-> dtypes, rows |-> rows]

\* the frame with column c replaced or added: df[c] = <values of type dtype>
Assign(f, c, dtype, value(_)) ==
    Frame([k \in DOMAIN f.dtypes \cup {c} |-> IF k = c THEN dtype ELSE f.dtypes[k]],
          [i \in 1..Len(f.rows) |->
              [k \in DOMAIN f.dtypes \cup {c} |->
                  IF k = c THEN value(f.rows[i]) ELSE f.rows[i][k]]])

\* str(date) of the n-th day of the collected month
DateText(n) == "2024-01-0" \o ToString(n)

\* the text of a timestamp of that day as the CSV files hold it, and
\* pd.to_datetime of it (timestamps are hours of the day)
HourText(h) == ToString(h) \o ":00"

ParseHour(text) == CHOOSE h \in 0..23 : HourText(h) = text

\* df['datetime'] = pd.to_datetime(df['datetime'])
ToDatetime(f) ==
    IF f.dtypes["datetime"] = "str"
    THEN Assign(f, "datetime", "datetime64", LAMBDA r : ParseHour(r["datetime"]))
    ELSE f

\* df[c] = df[c].astype(str) of a column of dates or of categories
AsTypeStr(f, c) ==
    IF f.dtypes[c] = "date" THEN Assign(f, c, "str", LAMBDA r : DateText(r[c]))
    ELSE Assign(f, c, "str", LAMBDA r : r[c])

get_time_period(hour) ==
    IF 6 <= hour /\ hour < 10 THEN "morning_rush"
    ELSE IF 10 <= hour /\ hour < 16 THEN "midday"
    ELSE IF 16 <= hour /\ hour < 20 THEN "evening_rush"
    ELSE IF 20 <= hour /\ hour < 23 THEN "evening"
    ELSE "night"

get_season(month) ==
    IF month \in {12, 1, 2} THEN "winter"
    ELSE IF month \in {3, 4, 5} THEN "spring"
    ELSE IF month \in {6, 7, 8} THEN "summer"
    ELSE "autumn"

TempCategoryBins == <<-50, 0, 10, 20, 50>>

TempCategoryLabels == <<"freezing", "cold", "mild", "warm">>

\* GoldLayerBuilder.add_gold_features: every column is assigned into the df
\* it was given, and that df is returned (precipitation is whole millimetres,
\* so > 0.5 is >= 1)
add_gold_features(df) ==
    LET f1 == Assign(df, "time_period", "str", LAMBDA r : get_time_period(r["hour"]))
        f2 == Assign(f1, "season", "str", LAMBDA r : get_season(r["month"]))
        f3 == IF "precipitation" \in DOMAIN f2.dtypes
              THEN Assign(f2, "is_rainy", "bool", LAMBDA r : r["precipitation"] >= 1)
              ELSE f2
        f4 == IF "temperature" \in DOMAIN f3.dtypes
              THEN Assign(f3, "temp_category", "category",
                          LAMBDA r : Cut(r["temperature"], TempCategoryBins,
                                         TempCategoryLabels))
              ELSE f3
        f5 == IF "aqi_avg" \in DOMAIN f4.dtypes
              THEN Assign(f4, "air_quality_level", "category",
                          LAMBDA r : Cut(r["aqi_avg"], AqiBins, AqiLabels))
              ELSE f4
    IN  IF "congestion_level" \in DOMAIN f5.dtypes
        THEN Assign(f5, "traffic_level", "category",
                    LAMBDA r : Cut(r["congestion_level"], CongestionBins,
                                   CongestionLabels))
        ELSE f5

\* the dtype conversions of save_gold_data and save_cleaned_data, made on the
\* df they were given before it is written (str of a missing category is 'nan')
DateToStr(df) == IF "date" \in DOMAIN df.dtypes THEN AsTypeStr(df, "date") ELSE df

CategoriesToStr(df) ==
    Frame([c \in DOMAIN df.dtypes |->
              IF df.dtypes[c] = "category" THEN "str" ELSE df.dtypes[c]],
          [i \in 1..Len(df.rows) |->
              [c \in DOMAIN df.dtypes |->
                  IF df.dtypes[c] = "category" /\ df.rows[i][c] = NoText
                  THEN "nan" ELSE df.rows[i][c]]])

\* (hour, temperature, precipitation, day) of the rows of the frames
FrameStamps ==
    {<<h, t, p, d>> : h \in {7, 23}, t \in {-5, 15}, p \in {0, 2}, d \in {1, 2}}

\* a table as the stage gets it: datetimes parsed or text, dates as date
\* objects or text
FrameRow(k, datetimes, dates) ==
    [city_key |-> "berlin",
     datetime |-> IF datetimes = "str" THEN HourText(k[1]) ELSE k[1],
     date |-> IF dates = "str" THEN DateText(k[4]) ELSE k[4],
     hour |-> k[1], month |-> 1, temperature |-> k[2], precipitation |-> k[3]]

FrameDtypes(datetimes, dates) ==
    [city_key |-> "str", datetime |-> datetimes, date |-> dates, hour |-> "int",
     month |-> "int", temperature |-> "float", precipitation |-> "float"]

Frames(datetimes, dates) ==
    {Frame(FrameDtypes(datetimes, dates),
           [i \in 1..Len(ks) |-> FrameRow(ks[i], datetimes, dates)]) :
        ks \in SeqsUpTo(FrameStamps, MaxFrameRows)}

\* the key columns of the frame: the air-quality and traffic tables of the
\* same rows
KeysOnly(f) ==
    Frame([c \in {"city_key", "datetime"} |-> f.dtypes[c]],
          [i \in 1..Len(f.rows) |-> [c \in {"city_key", "datetime"} |-> f.rows[i][c]]])

AsTable(f) == Table(DOMAIN f.dtypes, f.rows)

\* the call of a stage: the tables as they were when passed, and the same
\* objects as the stage leaves them
Call(stage, args) == [stage |-> stage, passed |-> args, args |-> args, result |-> <<>>]

\* a caller holds the tables it is about to pass to a stage: the silver
\* tables (parquet, or CSV with text timestamps) for merge_datasets, the
\* merged table for add_gold_features, the table with its gold features for
\* save_gold_data, a cleaned table with date objects for save_cleaned_data
InitFrame ==
    /\ pc = "call"
    /\ \/ \E datetimes \in {"datetime64", "str"} :
             \E f \in Frames(datetimes, "str") :
                 held = Call("merge_datasets",
                             [weather |-> f, air_quality |-> KeysOnly(f),
                              traffic |-> KeysOnly(f)])
       \/ \E f \in Frames("datetime64", "str") :
             held = Call("add_gold_features", [df |-> f])
       \/ \E f \in Frames("datetime64", "str") :
             held = Call("save_gold_data", [df |-> add_gold_features(f)])
       \/ \E f \in Frames("datetime64", "date") :
             held = Call("save_cleaned_data", [df |-> f])
    /\ bucketed = <<>> /\ weather_run = <<>> /\ traffic_run = <<>> /\ units = <<>>
    /\ CleanIdle /\ RunIdle /\ ResolveIdle /\ MergeIdle /\ FeatIdle
    /\ SaveIdle /\ FamilyIdle /\ AlignIdle

\* GoldLayerBuilder.merge_datasets: the datetime columns are converted in the
\* three frames given; the subsets are copies and the merge result is new
FrameMergeDatasets ==
    /\ pc = "call" /\ held.stage = "merge_datasets"
    /\ LET w == ToDatetime(held.args.weather)
           a == ToDatetime(held.args.air_quality)
           t == ToDatetime(held.args.traffic)
       IN  held' = [held EXCEPT
                       !.args = [weather |-> w, air_quality |-> a, traffic |-> t],
                       !.result = gold_merge_datasets(AsTable(w), AsTable(a), AsTable(t))]
    /\ pc' = "returned"
    /\ UNCHANGED <<bucketed, weather_run, traffic_run, units>>
    /\ UNCHANGED <<cleanVars, runVars, resolveVars, mergeVars, featVars, saveVars,
                   familyVars, alignVars>>

\* GoldLayerBuilder.add_gold_features: the result is the object it was given
FrameAddGoldFeatures ==
    /\ pc = "call" /\ held.stage = "add_gold_features"
    /\ LET out == add_gold_features(held.args.df)
       IN  held' = [held EXCEPT !.args = [df |-> out], !.result = out]
    /\ pc' = "returned"
    /\ UNCHANGED <<bucketed, weather_run, traffic_run, units>>
    /\ UNCHANGED <<cleanVars, runVars, resolveVars, mergeVars, featVars, saveVars,
                   familyVars, alignVars>>

\* GoldLayerBuilder.save_gold_data: returns None
FrameSaveGoldData ==
    /\ pc = "call" /\ held.stage = "save_gold_data"
    /\ held' = [held EXCEPT !.args = [df |-> CategoriesToStr(DateToStr(held.args.df))]]
    /\ pc' = "returned"
    /\ UNCHANGED <<bucketed, weather_run, traffic_run, units>>
    /\ UNCHANGED <<cleanVars, runVars, resolveVars, mergeVars, featVars, saveVars,
                   familyVars, alignVars>>

\* DataCleaner.save_cleaned_data: returns None
FrameSaveCleanedData ==
    /\ pc = "call" /\ held.stage = "save_cleaned_data"
    /\ held' = [held EXCEPT !.args = [df |-> DateToStr(held.args.df)]]
    /\ pc' = "returned"
    /\ UNCHANGED <<bucketed, weather_run, traffic_run, units>>
    /\ UNCHANGED <<cleanVars, runVars, resolveVars, mergeVars, featVars, saveVars,
                   familyVars, alignVars>>

NextFrame ==
    \/ FrameMergeDatasets \/ FrameAddGoldFeatures
    \/ FrameSaveGoldData \/ FrameSaveCleanedData

SpecFrame == InitFrame /\ [][NextFrame]_vars

\* the two frames have the same columns and element types, and the same rows
SameFrame(f, g) == f.dtypes = g.dtypes /\ f.rows = g.rows

\* C23: when a stage has returned, every table the caller passed has the
\* columns, types and values it had before the call.
C23_ArgumentsUntouched ==
    (pc = "returned" /\ Len(held.passed[CHOOSE a \in DOMAIN held.passed : TRUE].rows) > 0) =>
        \A a \in DOMAIN held.args : SameFrame(held.args[a], held.passed[a])

-----------------------------------------------------------------------------
(* SpecWeather: WeatherCollector. The collector keeps a cache of station ids *)
(* for five cities and collects for the city keys it is asked for, or for    *)
(* every key of the registry.                                                *)

\* the most city keys of one collect_weather_data call, and the most calls
\* made on one collector
MaxCityKeys == 3
MaxCollectCalls == 2

\* WeatherCollector.__init__: self.station_ids, no station known yet
StationIds ==
    [k \in {"berlin", "munich", "hamburg", "cologne", "frankfurt"} |-> "None"]

\* keys of config.CITIES that the calls are made for: two of the five cached
\* cities and a key of the registry that the cache does not list
WeatherCityKeys == {"berlin", "munich", "dusseldorf"}

\* find_nearest_station: a station id, or None when no station is near or the
\* request failed (it catches every exception)
StationLookups == {"10384", "None"}

\* Daily(...).fetch(): rows, an empty frame, or an exception
FetchOutcomes == {"rows", "empty", "error"}

\* get_weather_data(city_key) on collector state w with the given outcomes of
\* the station lookup and of the fetch: the new cache, the lookups made and
\* what the call returns, or the KeyError of self.station_ids[city_key]
get_weather_data(w, city_key, lookup, fetch) ==
    IF city_key \notin DOMAIN w.station_ids
    THEN [w EXCEPT !.last = "KeyError", !.raised = TRUE]
    ELSE LET miss == w.station_ids[city_key] = "None"
             ids == IF miss THEN [w.station_ids EXCEPT ![city_key] = lookup]
                    ELSE w.station_ids
             looked == IF miss
                       THEN Append(w.lookups, [city_key |-> city_key, station |-> lookup])
                       ELSE w.lookups
         IN  [w EXCEPT !.station_ids = ids, !.lookups = looked,
                       !.last = IF fetch = "rows" THEN "table" ELSE "None"]

InitWeather ==
    /\ pc = "collect"
    /\ \E city_keys \in SeqsUpTo(WeatherCityKeys, MaxCityKeys) :
          weather_run = [station_ids |-> StationIds, city_keys |-> city_keys,
                         at |-> 1, all_data |-> <<>>, lookups |-> <<>>,
                         last |-> "None", raised |-> FALSE, calls |-> 1]
    /\ bucketed = <<>> /\ held = <<>> /\ traffic_run = <<>> /\ units = <<>>
    /\ CleanIdle /\ RunIdle /\ ResolveIdle /\ MergeIdle /\ FeatIdle
    /\ SaveIdle /\ FamilyIdle /\ AlignIdle

\* one pass of the loop of collect_weather_data over city_keys; the KeyError
\* of get_weather_data is not caught and ends the call
CollectCity ==
    /\ pc = "collect" /\ weather_run.at <= Len(weather_run.city_keys)
    /\ \E lookup \in StationLookups, fetch \in FetchOutcomes :
          LET city_key == weather_run.city_keys[weather_run.at]
              w == get_weather_data(weather_run, city_key, lookup, fetch)
          IN  /\ weather_run' =
                    IF w.raised THEN w
                    ELSE [w EXCEPT !.at = @ + 1,
                                   !.all_data = IF w.last = "table"
                                                THEN Append(@, city_key) ELSE @]
              /\ pc' = IF w.raised THEN "raised" ELSE "collect"
    /\ UNCHANGED <<bucketed, held, traffic_run, units>>
    /\ UNCHANGED <<cleanVars, runVars, resolveVars, mergeVars, featVars, saveVars,
                   familyVars, alignVars>>

\* collect_weather_data returns the concatenation of the tables collected
ReturnWeather ==
    /\ pc = "collect" /\ weather_run.at > Len(weather_run.city_keys)
    /\ pc' = "collected"
    /\ UNCHANGED weather_run
    /\ UNCHANGED <<bucketed, held, traffic_run, units>>
    /\ UNCHANGED <<cleanVars, runVars, resolveVars, mergeVars, featVars, saveVars,
                   familyVars, alignVars>>

\* the same collector is asked again: the cache of station ids is kept
CollectAgain ==
    /\ pc = "collected" /\ weather_run.calls < MaxCollectCalls
    /\ \E city_keys \in SeqsUpTo(WeatherCityKeys, MaxCityKeys) :
          weather_run' = [weather_run EXCEPT !.city_keys = city_keys, !.at = 1,
                                             !.all_data = <<>>, !.calls = @ + 1]
    /\ pc' = "collect"
    /\ UNCHANGED <<bucketed, held, traffic_run, units>>
    /\ UNCHANGED <<cleanVars, runVars, resolveVars, mergeVars, featVars, saveVars,
                   familyVars, alignVars>>

NextWeather == CollectCity \/ ReturnWeather \/ CollectAgain

SpecWeather == InitWeather /\ [][NextWeather]_vars

\* C25: get_weather_data returns a table or None for every city key of the
\* registry and never raises, so collect_weather_data goes on to the
\* remaining cities; a station found for a city is not looked up again.
C25_FailsClosed ==
    weather_run # <<>> =>
        /\ ~weather_run.raised
        /\ weather_run.last \in {"table", "None"}
        /\ \A i, j \in 1..Len(weather_run.lookups) :
               (i < j /\ weather_run.lookups[i].city_key = weather_run.lookups[j].city_key)
                   => weather_run.lookups[i].station = "None"

-----------------------------------------------------------------------------
(* SpecTraffic: TrafficCollector.collect_traffic_data with                  *)
(* use_synthetic=False. Cities are 1..n in the order of city_keys, dates    *)
(* are the days 1..d from start_date to end_date. all_data holds one item   *)
(* per appended value: the dict of one API call, or the DataFrame of        *)
(* create_synthetic_traffic_data for a city and a range of days.            *)

\* the most cities and days of a collection, and the most API calls
\* (cities times days) its loop can make
MaxTrafficCities == 6
MaxTrafficDays == 3
MaxApiCalls == 12

\* max_failures of collect_traffic_data
max_failures == 5

\* mutant: a success leaves the failure counter as it is
FailuresKept(consecutive_failures, ok) ==
    IF ok THEN consecutive_failures ELSE consecutive_failures + 1

\* consecutive_failures after an API call
FailuresAfter(consecutive_failures, ok) ==
    IF ok THEN 0 ELSE consecutive_failures + 1

\* the dict get_tomtom_traffic_index returns for a city and a date
RealRecord(city, day) == [kind |-> "real", city |-> city, from |-> day, to |-> day]

\* the DataFrames of create_synthetic_traffic_data(city, from, end_date) for
\* every city of city_keys, in their order
SyntheticForAll(n, from, to) ==
    [c \in 1..n |-> [kind |-> "synthetic", city |-> c, from |-> from, to |-> to]]

InitTraffic ==
    /\ pc = "probe"
    /\ \E n \in 1..MaxTrafficCities, d \in 1..MaxTrafficDays :
          /\ n * d <= MaxApiCalls
          /\ traffic_run = [cities |-> n, days |-> d, probe |-> "none",
                            current_date |-> 1, at |-> 1, consecutive_failures |-> 0,
                            all_data |-> <<>>, calls |-> <<>>, switched |-> FALSE,
                            result |-> "none"]
    /\ bucketed = <<>> /\ held = <<>> /\ weather_run = <<>> /\ units = <<>>
    /\ CleanIdle /\ RunIdle /\ ResolveIdle /\ MergeIdle /\ FeatIdle
    /\ SaveIdle /\ FamilyIdle /\ AlignIdle

\* the test call for the first city and the start date: when it gives nothing
\* every city gets synthetic data for the whole range
ProbeApi ==
    /\ pc = "probe"
    /\ \E ok \in BOOLEAN :
          IF ok
          THEN /\ traffic_run' = [traffic_run EXCEPT !.probe = "ok"]
               /\ pc' = "loop"
          ELSE /\ traffic_run' =
                     [traffic_run EXCEPT
                         !.probe = "failed",
                         !.all_data = SyntheticForAll(traffic_run.cities, 1, traffic_run.days)]
               /\ pc' = "build"
    /\ UNCHANGED <<bucketed, held, weather_run, units>>
    /\ UNCHANGED <<cleanVars, runVars, resolveVars, mergeVars, featVars, saveVars,
                   familyVars, alignVars>>

\* one pass of the inner loop: the API call for city_keys[at] on current_date
ApiCall ==
    /\ pc = "loop"
    /\ \E ok \in BOOLEAN :
          LET t == traffic_run
              failures == FailuresAfter(t.consecutive_failures, ok)
              switch == ~ok /\ failures >= max_failures
              last_city == t.at = t.cities
          IN  /\ traffic_run' =
                    [t EXCEPT
                        !.calls = Append(@, ok),
                        !.consecutive_failures = failures,
                        !.switched = switch,
                        !.all_data =
                            IF ok THEN Append(@, RealRecord(t.at, t.current_date))
                            ELSE IF switch
                            THEN @ \o SyntheticForAll(t.cities, t.current_date, t.days)
                            ELSE @,
                        !.at = IF switch THEN @ ELSE IF last_city THEN 1 ELSE @ + 1,
                        !.current_date = IF ~switch /\ last_city THEN @ + 1 ELSE @]
              /\ pc' = IF switch \/ (last_city /\ t.current_date = t.days)
                       THEN "build" ELSE "loop"
    /\ UNCHANGED <<bucketed, held, weather_run, units>>
    /\ UNCHANGED <<cleanVars, runVars, resolveVars, mergeVars, featVars, saveVars,
                   familyVars, alignVars>>

\* the result table: empty without items, pd.concat when the first item is a
\* DataFrame, else pd.DataFrame(list) of what are taken to be dicts
BuildResult ==
    /\ pc = "build"
    /\ LET items == traffic_run.all_data
           kinds == {items[i].kind : i \in 1..Len(items)}
       IN  traffic_run' =
               [traffic_run EXCEPT
                   !.result = IF items = <<>> THEN "empty"
                              ELSE IF kinds = {"synthetic"} THEN "concat"
                              ELSE IF kinds = {"real"} THEN "records"
                              ELSE "records and frames"]
    /\ pc' = "returned"
    /\ UNCHANGED <<bucketed, held, weather_run, units>>
    /\ UNCHANGED <<cleanVars, runVars, resolveVars, mergeVars, featVars, saveVars,
                   familyVars, alignVars>>

NextTraffic == ProbeApi \/ ApiCall \/ BuildResult

SpecTraffic == InitTraffic /\ [][NextTraffic]_vars

\* the loop and the calls after it run to their end
SpecTrafficLive == SpecTraffic /\ WF_vars(NextTraffic)

\* the (city, day) pairs an item covers
Covered(item) == {<<item.city, day>> : day \in item.from..item.to}

\* C28: when the result table is built the items are all API records or all
\* synthetic tables, and no (city_key, date) is covered by an API record and
\* by synthetic rows.
C28_Homogeneous ==
    (traffic_run # <<>> /\ pc \in {"build", "returned"}) =>
        LET items == traffic_run.all_data
        IN  /\ \A i, j \in 1..Len(items) : items[i].kind = items[j].kind
            /\ \A i, j \in 1..Len(items) :
                   (items[i].kind = "real" /\ items[j].kind = "synthetic")
                       => Covered(items[i]) \cap Covered(items[j]) = {}

\* the number of failures at the end of the calls made so far
TrailingFailures(calls) ==
    LET ok == {i \in 1..Len(calls) : calls[i]}
        last_ok == IF ok = {} THEN 0 ELSE CHOOSE i \in ok : \A j \in ok : j <= i
    IN  Len(calls) - last_ok

\* the fallback protocol in a state after a successful probe
FallbackProtocol ==
    LET t == traffic_run
        synthetic == SelectSeq(t.all_data, LAMBDA item : item.kind = "synthetic")
    IN  /\ t.consecutive_failures = TrailingFailures(t.calls)
        /\ t.switched <=> TrailingFailures(t.calls) >= max_failures
        /\ t.switched => TrailingFailures(t.calls) = max_failures
        /\ t.switched => pc \in {"build", "returned"}
        /\ IF t.switched
           THEN synthetic = SyntheticForAll(t.cities, t.current_date, t.days)
           ELSE synthetic = <<>>
        /\ Len(t.calls) <= t.cities * t.days
        /\ ~t.switched =>
               Len(t.calls) = (t.current_date - 1) * t.cities + (t.at - 1)

-----------------------------------------------------------------------------
(* SpecUnits: DataTransformer.standardize_units. Measurements are fixed-    *)
(* point numbers in thousandths (1000 is 1.0), so that the fractions the    *)
(* unit tests look for (0.01 of a traffic index, 0.005 mg/m3) and the       *)
(* quotients of the conversions are numbers of the model; a division keeps  *)
(* the thousandths and drops what is below.                                 *)

\* the longest table of SpecUnits
MaxUnitRows == 2

\* df[c].max() and df[c].min() of a column without missing values
ColumnMax(t, c) ==
    CHOOSE v \in {t.rows[i][c] : i \in Idx(t)} :
        \A i \in Idx(t) : t.rows[i][c] <= v

ColumnMin(t, c) ==
    CHOOSE v \in {t.rows[i][c] : i \in Idx(t)} :
        \A i \in Idx(t) : v <= t.rows[i][c]

\* (x - 32) * 5/9, x / 3.6 and x * k on thousandths
FahrenheitToCelsius(x) == ((x - 32000) * 5) \div 9

KmhToMs(x) == (x * 10) \div 36

Times(x, k) == x * k

\* the weather rules, thresholds in thousandths: Fahrenheit above 100, km/h
\* above 50, bar below 10 and kPa below 100 (the comparisons of an empty
\* column are False)
StandardizeWeather(df) ==
    LET t1 == IF "temperature" \in df.cols /\ Len0(df) > 0
                 /\ ColumnMax(df, "temperature") > 100000
              THEN SetCol(df, "temperature",
                          LAMBDA i : FahrenheitToCelsius(df.rows[i]["temperature"]))
              ELSE df
        t2 == IF "wind_speed" \in t1.cols /\ Len0(t1) > 0
                 /\ ColumnMax(t1, "wind_speed") > 50000
              THEN SetCol(t1, "wind_speed", LAMBDA i : KmhToMs(t1.rows[i]["wind_speed"]))
              ELSE t1
    IN  IF "pressure" \in t2.cols /\ Len0(t2) > 0
        THEN IF ColumnMin(t2, "pressure") < 10000
             THEN SetCol(t2, "pressure", LAMBDA i : Times(t2.rows[i]["pressure"], 1000))
             ELSE IF ColumnMin(t2, "pressure") < 100000
             THEN SetCol(t2, "pressure", LAMBDA i : Times(t2.rows[i]["pressure"], 10))
             ELSE t2
        ELSE t2

\* the pollutant rules: co below 10 and the others below 1 are mg/m3
UnitPollutantCols == <<"no2", "pm25", "pm10", "o3", "co">>

StandardizeAirQuality(df) ==
    LET RECURSIVE Convert(_, _)
        Convert(t, cs) ==
            IF cs = <<>> THEN t
            ELSE LET col == Head(cs)
                     limit == IF col = "co" THEN 10000 ELSE 1000
                 IN  IF col \in t.cols /\ Len0(t) > 0 /\ ColumnMax(t, col) < limit
                     THEN Convert(SetCol(t, col, LAMBDA i : Times(t.rows[i][col], 1000)),
                                  Tail(cs))
                     ELSE Convert(t, Tail(cs))
    IN  Convert(df, UnitPollutantCols)

\* the traffic rule: an index of at most 1 is a fraction
StandardizeTraffic(df) ==
    IF "traffic_index" \in df.cols /\ Len0(df) > 0
       /\ ColumnMax(df, "traffic_index") <= 1000
    THEN SetCol(df, "traffic_index", LAMBDA i : Times(df.rows[i]["traffic_index"], 100))
    ELSE df

\* DataTransformer.standardize_units(df, data_type) on a copy of df
standardize_units(df, data_type) ==
    IF data_type = "weather" THEN StandardizeWeather(df)
    ELSE IF data_type = "air_quality" THEN StandardizeAirQuality(df)
    ELSE IF data_type = "traffic" THEN StandardizeTraffic(df)
    ELSE df

\* rows of the three kinds of table, in thousandths: canonical values and
\* values in the other units the rules look for; humidity, aqi and
\* current_speed are columns no rule names
UnitRows(data_type) ==
    IF data_type = "weather"
    THEN {[temperature |-> te, wind_speed |-> w, pressure |-> p, humidity |-> 50000] :
             te \in {20000, 212000, 392000}, w \in {5000, 72000, 216000},
             p \in {1013000, 99000, 1000}}
    ELSE IF data_type = "air_quality"
    THEN {[no2 |-> n, co |-> c, aqi |-> 2000] :
             n \in {40000, 40, 0}, c \in {300000, 300, 5}}
    ELSE {[traffic_index |-> x, current_speed |-> 30000] : x \in {40000, 500, 10, 0}}

UnitTables(data_type) ==
    {Table(DOMAIN (CHOOSE r \in UnitRows(data_type) : TRUE), rows) :
        rows \in SeqsUpTo(UnitRows(data_type), MaxUnitRows)}

InitUnits ==
    /\ pc = "given"
    /\ \E data_type \in Sources : \E df \in UnitTables(data_type) :
          units = [data_type |-> data_type, df |-> df, once |-> Unset, twice |-> Unset]
    /\ bucketed = <<>> /\ held = <<>> /\ weather_run = <<>> /\ traffic_run = <<>>
    /\ CleanIdle /\ RunIdle /\ ResolveIdle /\ MergeIdle /\ FeatIdle
    /\ SaveIdle /\ FamilyIdle /\ AlignIdle

StandardizeUnits ==
    /\ pc = "given"
    /\ units' = [units EXCEPT !.once = standardize_units(units.df, units.data_type)]
    /\ pc' = "standardized"
    /\ UNCHANGED <<bucketed, held, weather_run, traffic_run>>
    /\ UNCHANGED <<cleanVars, runVars, resolveVars, mergeVars, featVars, saveVars,
                   familyVars, alignVars>>

\* the standardized table is standardized again
StandardizeAgain ==
    /\ pc = "standardized"
    /\ units' = [units EXCEPT !.twice = standardize_units(units.once, units.data_type)]
    /\ pc' = "restandardized"
    /\ UNCHANGED <<bucketed, held, weather_run, traffic_run>>
    /\ UNCHANGED <<cleanVars, runVars, resolveVars, mergeVars, featVars, saveVars,
                   familyVars, alignVars>>

NextUnits == StandardizeUnits \/ StandardizeAgain

SpecUnits == InitUnits /\ [][NextUnits]_vars

\* the columns the rules of a source type name
UnitCols(data_type) ==
    IF data_type = "weather" THEN {"temperature", "wind_speed", "pressure"}
    ELSE IF data_type = "air_quality" THEN {"no2", "pm25", "pm10", "o3", "co"}
    ELSE {"traffic_index"}

\* C30: standardizing a standardized table changes nothing: a column that
\* was converted is not converted again; and the columns the rules of the
\* source type do not name are as they were given.
C30_StandardizeIdempotent ==
    pc = "restandardized" =>
        /\ units.twice = units.once
        /\ \A c \in units.df.cols \ UnitCols(units.data_type) :
               \A i \in Idx(units.df) : units.once.rows[i][c] = units.df.rows[i][c]

====
